---- MODULE Spec2Model ----
(***************************************************************************)
(* Model of the python backend of space-weather-web:                       *)
(*   data_collectors/space_weather_collector.py  SpaceWeatherCollector     *)
(*   data_collectors/satellite_data.py           SatelliteDataCollector    *)
(*   data_collectors/solar_analysis.py           SolarAnalyzer             *)
(*                                                                         *)
(* Encoding of Python values.                                              *)
(*   float / None   a record [t, v]: Num(n) is the number n, NaN the float *)
(*                  nan (a non-numeric sample after pd.to_numeric with     *)
(*                  errors='coerce'), None the Python None.                *)
(*   dict           a function from key strings to values; {} is Empty.    *)
(*   Dst            -20*sqrt(v/400)*|bz| = -sqrt(v*bz*bz) is irrational in  *)
(*                  general, so a Dst value is kept exactly as             *)
(*                  sign*sqrt(sq): [t, sign, sq].                          *)
(*   probability    in hundredths (0.1 is 10, 0.95 is 95).                 *)
(*   exceptions     a function body evaluates to [exc, val]; exc is "none" *)
(*                  or the name of the exception class it raised.          *)
(* State.  pc, op, arg, resp, requests, result, raised describe the request *)
(* being served; now is the day of the clock; collector holds the fields   *)
(* of the three module-level collector objects; served records that a      *)
(* request has been answered since they were constructed.                  *)
(* A feed response is [status, header, rows]: status "ok" or the way the   *)
(* request failed, header whether a header row came first (array-of-arrays *)
(* feeds), rows the data rows in feed order.                               *)
(***************************************************************************)
EXTENDS Integers, Sequences, FiniteSets, TLC

VARIABLES pc, op, arg, resp, requests, result, raised, now, collector, served

vars == <<pc, op, arg, resp, requests, result, raised, now, collector, served>>

(***************************************************************************)
(* Bounds of the model                                                     *)
(***************************************************************************)
MaxDays == 2
MaxNow == 1
MaxRun == 12
MaxEntries == 2
MaxTypeLen == 4

(***************************************************************************)
(* Python values                                                           *)
(***************************************************************************)
Num(n) == [t |-> "num", v |-> n]
NaN == [t |-> "nan", v |-> 0]
None == [t |-> "none", v |-> 0]
Empty == <<>>

Get(d, k, dflt) == IF k \in DOMAIN d THEN d[k] ELSE dflt
Truthy(d) == DOMAIN d # {}

Ok(v) == [exc |-> "none", val |-> v]
Raise(e) == [exc |-> e, val |-> Empty]

(* F applied to the value of v, with v evaluated once *)
With(v, F(_)) == CHOOSE y \in {F(x) : x \in {v}} : TRUE

Rep(v, n) == [i \in 1..n |-> v]
DfTail(s, n) == IF Len(s) <= n THEN s ELSE SubSeq(s, Len(s) - n + 1, Len(s))
Min(a, b) == IF a <= b THEN a ELSE b

(***************************************************************************)
(* Program constants                                                       *)
(***************************************************************************)
Window96 == 96
SampleMinutes == 15
DefaultSpeed == 400
DefaultDays == 3

URL_plasma7 == "products/solar-wind/plasma-7-day.json"
URL_mag7 == "products/solar-wind/mag-7-day.json"
URL_xrays == "json/goes/primary/xrays-7-day.json"
URL_protons == "json/goes/primary/integral-protons-1-day.json"
URL_goesmag == "json/goes/primary/magnetometers-1-day.json"
URL_plasma1 == "products/solar-wind/plasma-1-day.json"
URL_mag1 == "products/solar-wind/mag-1-day.json"
URL_indices == "json/solar-cycle/observed-solar-cycle-indices.json"
URL_regions == "json/solar_regions.json"
URL_flares == "json/goes/primary/xray-flares-7-day.json"

Window288 == 288
ProtonAlertFlux == 10
L1DistanceKm == 1500000
DefaultPropagationMinutes == 60
LargeArea == 500
MaxListedRegions == 5
MaxListedFlares == 10
RecentHours == 24
PeriodDays == 3

(***************************************************************************)
(* Upstream feeds: the responses a request can receive                     *)
(***************************************************************************)
FailStatus == {"transport", "http", "timeout"}
Failed(st) == [status |-> st, header |-> FALSE, rows |-> <<>>]
Payload(h, rs) == [status |-> "ok", header |-> h, rows |-> rs]
Failures == {Failed(st) : st \in FailStatus}

SpeedSamples == {Num(-1), Num(400), Num(650), Num(1000), NaN}
BzSamples == {Num(-20), Num(-15), Num(-10), Num(-3), Num(0), NaN}
RunLens == {0, MaxRun}
ProbGrid == 0..100

SwRow(s) == [speed |-> s]
MagRow(b) == [bz_gsm |-> b]

SolarWindResponses ==
    Failures \cup {Payload(FALSE, <<>>), Payload(TRUE, <<>>)}
    \cup {Payload(TRUE, <<SwRow(s)>>) : s \in SpeedSamples}

MagResponses ==
    Failures \cup {Payload(FALSE, <<>>), Payload(TRUE, <<>>)}
    \cup {Payload(TRUE, Rep(MagRow(Num(-1)), n) \o <<MagRow(b)>>) :
            n \in RunLens, b \in BzSamples}

(* for operations that read every feed twice: one kind of failure *)
SolarWindFeed == (SolarWindResponses \ Failures) \cup {Failed("timeout")}
MagFeed == (MagResponses \ Failures) \cup {Failed("timeout")}

(* sequences of at most n elements of S *)
SeqUpTo(S, n) == UNION {[1..k -> S] : k \in 0..n}

(* array-of-objects feeds; X-ray flux is in units of 1e-12 W/m^2, so that
   1e-8 is 10000 and 9.999e-9 is 9999 *)
XrayEntries ==
    {[energy |-> "0.1-0.8nm", flux |-> Num(5000)],
     [energy |-> "0.1-0.8nm", flux |-> Num(250000000)],
     [energy |-> "0.1-0.8nm", flux |-> NaN],
     [energy |-> "0.05-0.4nm", flux |-> Num(5000)],
     [energy |-> "0.5-4.0nm", flux |-> Num(5000)]}

(* arguments of _classify_xray_flux: both sides of every breakpoint *)
FluxGrid ==
    {Num(f) : f \in {-1, 0, 9999, 10000, 10001, 99999, 100000, 999999, 1000000,
                     9999999, 10000000, 99999999, 100000000, 199999999,
                     200000000, 250000000, 1700000000}} \cup {NaN}
ProtonEntries ==
    {[energy |-> ">=10MeV", flux |-> Num(10)],
     [energy |-> ">=10MeV", flux |-> Num(50)],
     [energy |-> ">=10MeV", flux |-> NaN],
     [energy |-> ">=10 MeV", flux |-> Num(50)],
     [energy |-> ">=100MeV", flux |-> Num(50)]}
GoesMagEntries == {[Ht |-> Num(100)], [Ht |-> Num(130)], [Ht |-> NaN]}
IndexEntries == {[ssn |-> Num(0)], [ssn |-> Num(25)], [ssn |-> Num(120)], [ssn |-> None]}
RegionEntries ==
    {[status |-> "active", region |-> 3001, area |-> Num(100), mag_class |-> "Alpha"],
     [status |-> "active", region |-> 3002, area |-> Num(600), mag_class |-> "Beta-Gamma-Delta"],
     [status |-> "active", region |-> 3003, area |-> Num(100), mag_class |-> "beta-gamma-delta"],
     [status |-> "active", region |-> 3004, area |-> None, mag_class |-> "beta"],
     [status |-> "active", region |-> 3005, area |-> Num(100), mag_class |-> "null"],
     [status |-> "active", region |-> 3007, area |-> Num(100), mag_class |-> "beta-gamma"],
     [status |-> "inactive", region |-> 3006, area |-> Num(600), mag_class |-> "delta"]}

ObjectResponses(Entries) ==
    Failures \cup {Payload(FALSE, rs) : rs \in SeqUpTo(Entries, MaxEntries)}
(* feeds of at most one entry, for operations that read several feeds *)
ShortResponses(Entries) ==
    Failures \cup {Payload(FALSE, rs) : rs \in SeqUpTo(Entries, 1)}
XrayResponses == ObjectResponses(XrayEntries)
ProtonResponses == ObjectResponses(ProtonEntries)
GoesMagResponses == ObjectResponses(GoesMagEntries)
IndexResponses == ObjectResponses(IndexEntries)
RegionResponses == ObjectResponses(RegionEntries)

(* satellite_type arguments: strings as sequences of characters *)
(* Timestamps as the feeds write them.  A timestamp string is kept as its
   format and the wall-clock hour it spells: "Z" is 'YYYY-MM-DDTHH:MM:SSZ',
   "naive" the same without a zone, "offset" the same followed by '+hh:00'
   (off hours east of UTC); "empty" is '' or a JSON null, "absent" a key the
   entry does not have, "bad" text that is no timestamp.  Hours count from
   the midnight of day 0, so the time of a call on day `today` is today*24 *)
TimeStr(fmt, clock, off) == [fmt |-> fmt, clock |-> clock, off |-> off]
NoTime == TimeStr("empty", 0, 0)
AbsentTime == TimeStr("absent", 0, 0)
BadTime == TimeStr("bad", 0, 0)
ZTime(h) == TimeStr("Z", h, 0)
NaiveTime(h) == TimeStr("naive", h, 0)
OffsetTime(h, off) == TimeStr("offset", h, off)

(* a GOES class such as 'X1.2' is <<letter, tenths>>, '' is <<>> *)
FlareRow(class, begin, peak) ==
    [max_class |-> class, begin_time |-> begin, max_time |-> peak,
     end_time |-> NoTime, max_xrlong |-> Num(0)]
FlareEntries(today) ==
    LET h == today * 24
    IN  {FlareRow(<<"X", 12>>, ZTime(h - 3), ZTime(h - 2)),
         FlareRow(<<"m", 50>>, OffsetTime(h, 5), OffsetTime(h + 1, 5)),
         FlareRow(<<"C", 31>>, NaiveTime(h - 31), NaiveTime(h - 30)),
         FlareRow(<<"B", 20>>, ZTime(-51), ZTime(-50)),
         FlareRow(<<"A", 10>>, ZTime(h - 6), ZTime(h - 5)),
         FlareRow(<<>>, ZTime(h - 4), ZTime(h - 3)),
         FlareRow(<<"C", 10>>, ZTime(h - 7), NoTime),
         FlareRow(<<"M", 10>>, ZTime(h - 8), BadTime)}
(* a run of one flare repeated, long enough to fill the returned list *)
FlareFiller(today) == FlareRow(<<"C", 20>>, ZTime(today * 24 - 11), ZTime(today * 24 - 10))
FlareResponses(today) ==
    Failures \cup
    {Payload(FALSE, rs) : rs \in SeqUpTo(FlareEntries(today), MaxEntries)}
LongFlareResponses(today) ==
    {Payload(FALSE, Rep(FlareFiller(today), MaxListedFlares) \o tail) :
        tail \in SeqUpTo(FlareEntries(today), 2)}

(* entries of the solar regions feed with the fields _fetch_recent_flares
   reads; an int field is None when the feed carries null *)
RegionRow(region, location, events, probabilities, mag_class, area) ==
    [region |-> region, location |-> location,
     x_xray_events |-> events[1], m_xray_events |-> events[2],
     c_xray_events |-> events[3],
     x_flare_probability |-> probabilities[1],
     m_flare_probability |-> probabilities[2],
     c_flare_probability |-> probabilities[3],
     mag_class |-> mag_class, area |-> area]
NoEvents == <<Num(0), Num(0), Num(0)>>
FlareRegionEntries ==
    {RegionRow(Num(3001), "N10W20", <<Num(1), Num(0), Num(2)>>, NoEvents, "B", Num(100)),
     RegionRow(Num(3002), "S05E10", <<Num(2), Num(1), Num(0)>>, NoEvents, "B", Num(100)),
     RegionRow(Num(3003), "N01E01", NoEvents, <<Num(10), Num(20), Num(30)>>, "A", Num(50)),
     RegionRow(Num(3005), "S20W40", NoEvents, NoEvents, "BGD", Num(10)),
     RegionRow(Num(3006), "N30E60", NoEvents, NoEvents, "A", Num(1010)),
     RegionRow(Num(3007), "", <<Num(2), Num(2), Num(2)>>, NoEvents, "BGD", Num(900)),
     RegionRow(Num(3008), "N15W15", <<None, Num(0), Num(0)>>, NoEvents, "B", None)}
(* at most two regions: enough for two candidates with equal scores *)
FlareRegionResponses ==
    Failures \cup {Payload(FALSE, rs) : rs \in SeqUpTo(FlareRegionEntries, 2)}
(* the flares feed together with the regions feed; the long flare lists
   come with one region response of each kind *)
FlareFeeds(today) ==
    (FlareResponses(today) \X FlareRegionResponses)
    \cup (LongFlareResponses(today) \X
             {Failed("http"), Payload(FALSE, <<>>),
              Payload(FALSE, <<RegionRow(Num(3001), "N10W20",
                                         <<Num(1), Num(0), Num(2)>>, NoEvents,
                                         "B", Num(100))>>)})

(* events of a SunPy HEK search *)
HekRow(class, start, peak) ==
    [fl_goescls |-> class, event_starttime |-> start, event_peaktime |-> peak,
     event_endtime |-> NoTime, ar_noaanum |-> Num(3001)]
HekEntries(today) ==
    LET h == today * 24
    IN  {HekRow(<<"X", 12>>, NaiveTime(h - 3), NaiveTime(h - 2)),
         HekRow(<<"M", 50>>, ZTime(h - 31), ZTime(h - 30)),
         HekRow(<<"c", 31>>, ZTime(h - 5), AbsentTime),
         HekRow(<<"B", 20>>, ZTime(h - 1), NoTime),
         HekRow(<<>>, NaiveTime(h - 7), NaiveTime(h - 6))}
HekFiller(today) == HekRow(<<"C", 20>>, ZTime(today * 24 - 11), ZTime(today * 24 - 10))
HekResults(today) ==
    {Rep(HekFiller(today), n) \o tail :
        n \in {0, MaxListedFlares}, tail \in SeqUpTo(HekEntries(today), MaxEntries)}
        \ {<<>>}

TypeAlphabet == {"g", "G", "o", "e", "s", "a", "A", "c", "x"}
SatelliteTypes == SeqUpTo(TypeAlphabet, MaxTypeLen)

(***************************************************************************)
(* requests.Session.get(url, timeout=...) followed by raise_for_status()   *)
(***************************************************************************)
(* a client that repeats a failed request once *)
SessionGetRetry(url, r) ==
    [log |-> IF r.status = "ok" THEN <<url>> ELSE <<url, url>>,
     exc |-> IF r.status = "ok" THEN "none" ELSE "RequestException",
     data |-> r]

SessionGet(url, r) ==
    [log |-> <<url>>,
     exc |-> IF r.status = "ok" THEN "none" ELSE "RequestException",
     data |-> r]

(* try: body  except requests.RequestException: return dflt *)
TryExceptRequestOnly(body, dflt) ==
    [ret |-> IF body.exc = "none" THEN body.val ELSE dflt,
     raised |-> body.exc \notin {"none", "RequestException"}]

(* try: body  except Exception: return dflt *)
TryExcept(body, dflt) ==
    [ret |-> IF body.exc = "none" THEN body.val ELSE dflt, raised |-> FALSE]

(***************************************************************************)
(* SpaceWeatherCollector                                                   *)
(***************************************************************************)
CurrentOf(x) == IF x.t = "nan" THEN None ELSE x

SolarWindBody(g) ==
    IF g.exc # "none" THEN Raise(g.exc)
    ELSE IF ~g.data.header THEN Raise("IndexError")
    ELSE IF g.data.rows = <<>> THEN Raise("IndexError")
    ELSE LET latest == g.data.rows[Len(g.data.rows)]
         IN  Ok([current_speed |-> CurrentOf(latest.speed)])

fetch_solar_wind_data(r) ==
    LET g == SessionGet(URL_plasma7, r)
        t == TryExcept(SolarWindBody(g), Empty)
    IN  [ret |-> t.ret, raised |-> t.raised, log |-> g.log]

SouthwardCount(rows) ==
    LET w == DfTail(rows, Window96)
    IN  Cardinality({i \in 1..Len(w) : w[i].bz_gsm.t = "num" /\ w[i].bz_gsm.v < 0})

MagnetometerBody(g) ==
    IF g.exc # "none" THEN Raise(g.exc)
    ELSE IF ~g.data.header THEN Raise("IndexError")
    ELSE IF g.data.rows = <<>> THEN Raise("IndexError")
    ELSE LET latest == g.data.rows[Len(g.data.rows)]
         IN  Ok([current_bz |-> CurrentOf(latest.bz_gsm),
                 southward_duration_minutes |->
                     SouthwardCount(g.data.rows) * SampleMinutes])

fetch_magnetometer_data(r) ==
    LET g == SessionGet(URL_mag7, r)
        t == TryExcept(MagnetometerBody(g), Empty)
    IN  [ret |-> t.ret, raised |-> t.raised, log |-> g.log]

DstNum(s, q) == [t |-> "num", sign |-> s, sq |-> q]
DstNaN == [t |-> "nan", sign |-> 0, sq |-> 0]

(* d < n for a Dst value d and an integer n; every comparison with nan is false *)
DstLt(d, n) ==
    /\ d.t = "num"
    /\ IF n <= 0 THEN d.sign = -1 /\ d.sq > n * n
                 ELSE d.sign <= 0 \/ d.sq < n * n

(* the formula with abs() left out: -20.0 * np.sqrt(v/400) * bz *)
DstFormulaNoAbs(v, bz) ==
    IF v < 0 THEN DstNaN
    ELSE IF v * bz * bz = 0 THEN DstNum(0, 0)
    ELSE DstNum(IF bz < 0 THEN 1 ELSE -1, v * bz * bz)

(* -20.0 * np.sqrt(v/400) * abs(bz) *)
DstFormula(v, bz) ==
    IF v < 0 THEN DstNaN
    ELSE IF v * bz * bz = 0 THEN DstNum(0, 0)
    ELSE DstNum(-1, v * bz * bz)

DstBody(solar_wind, mag_data) ==
    IF ~Truthy(solar_wind) \/ ~Truthy(mag_data) THEN Ok(DstNum(0, 0))
    ELSE LET v == Get(solar_wind, "current_speed", Num(DefaultSpeed))
             bz == Get(mag_data, "current_bz", Num(0))
         IN  IF bz.t = "none" THEN Raise("TypeError")
             ELSE IF bz.v >= 0 THEN Ok(DstNum(-1, 4))
             ELSE IF v.t = "none" THEN Raise("TypeError")
             ELSE Ok(DstFormula(v.v, bz.v))

calculate_dst_estimate(r_sw, r_mag) ==
    LET s == fetch_solar_wind_data(r_sw)
        m == fetch_magnetometer_data(r_mag)
        t == TryExcept(DstBody(s.ret, m.ret), DstNum(0, 0))
    IN  [ret |-> t.ret, raised |-> s.raised \/ m.raised \/ t.raised,
         log |-> s.log \o m.log]

(* _estimate_kp: the probability is compared unrounded; the float sums the
   code can form (0.1, 0.30000000000000004, 0.4, 0.5, 0.6000000000000001,
   0.7, 0.8, 0.95) fall on the same side of every breakpoint as their
   hundredths *)
(* the breakpoints compared with <= *)
estimate_kp_inclusive(storm_probability) ==
    IF storm_probability <= 20 THEN 3
    ELSE IF storm_probability <= 40 THEN 4
    ELSE IF storm_probability <= 60 THEN 5
    ELSE IF storm_probability <= 80 THEN 6
    ELSE 7

estimate_kp(storm_probability) ==
    IF storm_probability < 20 THEN 3
    ELSE IF storm_probability < 40 THEN 4
    ELSE IF storm_probability < 60 THEN 5
    ELSE IF storm_probability < 80 THEN 6
    ELSE 7

get_condition_description(storm_probability) ==
    IF storm_probability < 20 THEN "Quiet to unsettled"
    ELSE IF storm_probability < 40 THEN "Active conditions likely"
    ELSE IF storm_probability < 60 THEN "Minor storm possible"
    ELSE IF storm_probability < 80 THEN "Moderate storm likely"
    ELSE "Strong storm expected"

(* the loop body without the clamp to 0.95 *)
StormProbabilityNoClamp(solar_wind, mag_data, dst) ==
    LET speed == Get(solar_wind, "current_speed", Num(0))
        bz == Get(mag_data, "current_bz", Num(0))
        p1 == 10 + (IF speed.v > 600 THEN 30 ELSE 0)
        p2 == p1 + (IF bz.v < -10 THEN 40 ELSE 0)
        p3 == p2 + (IF DstLt(dst, -50) THEN 20 ELSE 0)
    IN  IF speed.t = "none" THEN Raise("TypeError")
        ELSE IF bz.t = "none" THEN Raise("TypeError")
        ELSE Ok(p3)

(* the loop body reading the metrics without the default of 0 *)
StormProbabilityNoDefault(solar_wind, mag_data, dst) ==
    LET speed == Get(solar_wind, "current_speed", None)
        bz == Get(mag_data, "current_bz", None)
        p1 == 10 + (IF speed.v > 600 THEN 30 ELSE 0)
        p2 == p1 + (IF bz.v < -10 THEN 40 ELSE 0)
        p3 == p2 + (IF DstLt(dst, -50) THEN 20 ELSE 0)
    IN  IF speed.t = "none" THEN Raise("TypeError")
        ELSE IF bz.t = "none" THEN Raise("TypeError")
        ELSE Ok(Min(p3, 95))

(* body of the loop of generate_forecast up to the clamp: the probability
   in hundredths, or the TypeError of comparing None with a number *)
StormProbability(solar_wind, mag_data, dst) ==
    LET speed == Get(solar_wind, "current_speed", Num(0))
        bz == Get(mag_data, "current_bz", Num(0))
        p1 == 10 + (IF speed.v > 600 THEN 30 ELSE 0)
        p2 == p1 + (IF bz.v < -10 THEN 40 ELSE 0)
        p3 == p2 + (IF DstLt(dst, -50) THEN 20 ELSE 0)
    IN  IF speed.t = "none" THEN Raise("TypeError")
        ELSE IF bz.t = "none" THEN Raise("TypeError")
        ELSE Ok(Min(p3, 95))

ForecastBody(days, today, solar_wind, mag_data, dst) ==
    LET sp == StormProbability(solar_wind, mag_data, dst)
        prediction(day) ==
            [date |-> today + day,
             storm_probability |-> sp.val,
             expected_kp |-> estimate_kp(sp.val),
             expected_conditions |-> get_condition_description(sp.val)]
    IN  IF days >= 1 /\ sp.exc # "none" THEN Raise(sp.exc)
        ELSE Ok([forecast_period |-> days,
                 generated_at |-> today,
                 current_conditions |->
                     [solar_wind_speed |-> Get(solar_wind, "current_speed", None),
                      bz_component |-> Get(mag_data, "current_bz", None),
                      dst_index |-> dst],
                 predictions |-> [day \in 1..days |-> prediction(day)]])

generate_forecast(days, today, r1, r2, r3, r4) ==
    LET s == fetch_solar_wind_data(r1)
        m == fetch_magnetometer_data(r2)
        d == calculate_dst_estimate(r3, r4)
        body == ForecastBody(days, today, s.ret, m.ret, d.ret)
        t == TryExcept(body, [error |-> body.exc])
    IN  [ret |-> t.ret, raised |-> s.raised \/ m.raised \/ d.raised \/ t.raised,
         log |-> s.log \o m.log \o d.log]

Alert(level, type, today) == [level |-> level, type |-> type, timestamp |-> today]

(* the four checks of check_alerts in source order; val is the list built
   when the body ends or when a comparison with None raises *)
AlertsBody(today, solar_wind, mag_data, dst) ==
    LET speed == Get(solar_wind, "current_speed", Num(0))
        bz == Get(mag_data, "current_bz", Num(0))
        dur == Get(mag_data, "southward_duration_minutes", 0)
        a1 == IF speed.v > 700 THEN <<Alert("warning", "solar_wind", today)>> ELSE <<>>
        a2 == IF bz.v < -15 THEN <<Alert("alert", "magnetic_field", today)>> ELSE <<>>
        a3 == IF DstLt(dst, -100)
              THEN <<Alert("severe", "geomagnetic_storm", today)>> ELSE <<>>
        a4 == IF dur > 180
              THEN <<Alert("warning", "sustained_southward", today)>> ELSE <<>>
    IN  IF speed.t = "none" THEN [exc |-> "TypeError", val |-> <<>>]
        ELSE IF bz.t = "none" THEN [exc |-> "TypeError", val |-> a1]
        ELSE [exc |-> "none", val |-> a1 \o a2 \o a3 \o a4]

check_alerts(today, r1, r2, r3, r4) ==
    LET s == fetch_solar_wind_data(r1)
        m == fetch_magnetometer_data(r2)
        d == calculate_dst_estimate(r3, r4)
        body == AlertsBody(today, s.ret, m.ret, d.ret)
        t == TryExcept(body, body.val)
    IN  [ret |-> t.ret, raised |-> s.raised \/ m.raised \/ d.raised \/ t.raised,
         log |-> s.log \o m.log \o d.log]

(***************************************************************************)
(* SatelliteDataCollector                                                  *)
(***************************************************************************)
(* Series.max(): the largest numeric sample, nan when there is none *)
SeriesMax(vals) ==
    LET nums == {vals[i].v : i \in {j \in 1..Len(vals) : vals[j].t = "num"}}
    IN  IF nums = {} THEN NaN
        ELSE Num(CHOOSE m \in nums : \A n \in nums : n <= m)

FlareClass(letter, mult) == [letter |-> letter, mult |-> mult]

(* the breakpoints compared with <= *)
classify_xray_flux_inclusive(flux) ==
    IF flux.t = "nan" THEN Raise("ValueError")
    ELSE IF flux.v <= 10000 THEN Ok(FlareClass("A", 0))
    ELSE IF flux.v <= 100000 THEN Ok(FlareClass("B", 0))
    ELSE IF flux.v <= 1000000 THEN Ok(FlareClass("C", 0))
    ELSE IF flux.v <= 10000000 THEN Ok(FlareClass("M", 0))
    ELSE IF flux.v <= 100000000 THEN Ok(FlareClass("X", 0))
    ELSE Ok(FlareClass("X", flux.v \div 100000000))

(* _classify_xray_flux; every comparison with nan is false and int(nan)
   raises ValueError; 'X{n}-class' is FlareClass("X", n), the other labels
   have mult 0 *)
classify_xray_flux(flux) ==
    IF flux.t = "nan" THEN Raise("ValueError")
    ELSE IF flux.v < 10000 THEN Ok(FlareClass("A", 0))
    ELSE IF flux.v < 100000 THEN Ok(FlareClass("B", 0))
    ELSE IF flux.v < 1000000 THEN Ok(FlareClass("C", 0))
    ELSE IF flux.v < 10000000 THEN Ok(FlareClass("M", 0))
    ELSE IF flux.v < 100000000 THEN Ok(FlareClass("X", 0))
    ELSE Ok(FlareClass("X", flux.v \div 100000000))

XrayBody(g) ==
    IF g.exc # "none" THEN Raise(g.exc)
    ELSE LET IsChannel(e) == e.energy \in {"0.05-0.4nm", "0.1-0.8nm"}
             IsLong(e) == e.energy = "0.1-0.8nm"
             processed_data == SelectSeq(g.data.rows, IsChannel)
             long_channel == DfTail(SelectSeq(processed_data, IsLong), Window288)
             flux == [i \in 1..Len(long_channel) |-> long_channel[i].flux]
             current_flux == IF long_channel # <<>>
                             THEN flux[Len(flux)] ELSE Num(0)
             classification == classify_xray_flux(current_flux)
         IN  IF processed_data = <<>> THEN Ok(Empty)
             ELSE IF classification.exc # "none" THEN Raise(classification.exc)
             ELSE Ok([current_flux |-> current_flux,
                      classification |-> classification.val,
                      max_24h |-> IF long_channel # <<>>
                                  THEN SeriesMax(flux) ELSE Num(0),
                      data_points |-> Len(processed_data)])

fetch_goes_xray_data(r) ==
    LET g == SessionGet(URL_xrays, r)
        t == TryExcept(XrayBody(g), Empty)
    IN  [ret |-> t.ret, raised |-> t.raised, log |-> g.log]

(* the test '>=10' in energy, which every label of ProtonEntries passes *)
Contains10(energy) == energy \in {">=10MeV", ">=10 MeV", ">=100MeV"}
(* '>=10MeV' in energy, on the channel labels of ProtonEntries: a substring
   test, which neither '>=10 MeV' nor '>=100MeV' passes *)
Contains10MeV(energy) == energy = ">=10MeV"

ProtonBody(today, g) ==
    IF g.exc # "none" THEN Raise(g.exc)
    ELSE LET rows == g.data.rows
             energies == {rows[i].energy : i \in 1..Len(rows)}
             channel(energy) ==
                 LET Of(e) == e.energy = energy
                     measurements == SelectSeq(rows, Of)
                     flux == [i \in 1..Len(measurements) |-> measurements[i].flux]
                     current == flux[Len(flux)]
                 IN  [current_flux |-> current,
                      max_24h |-> SeriesMax(flux),
                      alert_threshold_exceeded |->
                          IF Contains10MeV(energy)
                          THEN current.t = "num" /\ current.v > ProtonAlertFlux
                          ELSE FALSE]
             results == [energy \in energies |-> channel(energy)]
         IN  Ok([channels |-> results,
                 sep_event_in_progress |->
                     \E energy \in energies : results[energy].alert_threshold_exceeded,
                 last_update |-> today])

fetch_goes_proton_data(today, r) ==
    LET g == SessionGet(URL_protons, r)
        t == TryExcept(ProtonBody(today, g), Empty)
    IN  [ret |-> t.ret, raised |-> t.raised, log |-> g.log]

(* Series.std() with ddof=1 over the numeric samples, kept exactly as the
   variance num/den; nan with fewer than two numeric samples *)
Variance(num, den) == [t |-> "num", num |-> num, den |-> den]
VarianceNaN == [t |-> "nan", num |-> 0, den |-> 1]
RECURSIVE SumSeq(_)
SumSeq(s) == IF s = <<>> THEN 0 ELSE s[1] + SumSeq(SubSeq(s, 2, Len(s)))
SeriesStd(vals) ==
    LET IsNumeric(x) == x.t = "num"
        numeric == SelectSeq(vals, IsNumeric)
        n == Len(numeric)
        xs == [i \in 1..n |-> numeric[i].v]
        sq == [i \in 1..n |-> numeric[i].v * numeric[i].v]
    IN  IF n < 2 THEN VarianceNaN
        ELSE Variance(n * SumSeq(sq) - SumSeq(xs) * SumSeq(xs), n * (n - 1))

(* variation < b, i.e. variance < b*b; false for nan *)
StdLt(variation, b) ==
    variation.t = "num" /\ variation.num < b * b * variation.den

(* arguments of _classify_disturbance in tenths of nT, both sides of every
   breakpoint; a float v tenths is the standard deviation of variance
   v*v/100 *)
VariationGrid ==
    {Num(v) : v \in {0, 99, 100, 101, 199, 200, 299, 300, 499, 500, 501, 1000}}
        \cup {NaN}
VariationOf(x) ==
    IF x.t = "nan" THEN VarianceNaN ELSE Variance(x.v * x.v, 100)

(* the breakpoints compared with <= *)
classify_disturbance_inclusive(variation) ==
    LET StdLe(b) == variation.t = "num" /\ variation.num <= b * b * variation.den
    IN  IF StdLe(10) THEN "Quiet"
        ELSE IF StdLe(20) THEN "Unsettled"
        ELSE IF StdLe(30) THEN "Active"
        ELSE IF StdLe(50) THEN "Minor Storm"
        ELSE "Major Storm"

classify_disturbance(variation) ==
    IF StdLt(variation, 10) THEN "Quiet"
    ELSE IF StdLt(variation, 20) THEN "Unsettled"
    ELSE IF StdLt(variation, 30) THEN "Active"
    ELSE IF StdLt(variation, 50) THEN "Minor Storm"
    ELSE "Major Storm"

GoesMagBody(g) ==
    IF g.exc # "none" THEN Raise(g.exc)
    ELSE LET rows == g.data.rows
             total == [i \in 1..Len(rows) |-> rows[i].Ht]
             variation == SeriesStd(total)
         IN  IF rows = <<>> THEN Ok(Empty)
             ELSE Ok([current_field |-> [total |-> total[Len(total)]],
                      variation_24h |-> variation,
                      disturbance_level |-> classify_disturbance(variation)])

fetch_goes_magnetometer_data(r) ==
    LET g == SessionGet(URL_goesmag, r)
        t == TryExcept(GoesMagBody(g), Empty)
    IN  [ret |-> t.ret, raised |-> t.raised, log |-> g.log]

(* minutes as the fraction num/den *)
Minutes(num, den) == [num |-> num, den |-> den]

calculate_propagation_time(solar_wind_speed) ==
    IF solar_wind_speed.t = "none" THEN Raise("TypeError")
    ELSE IF solar_wind_speed.t = "num" /\ solar_wind_speed.v > 0
    THEN Ok(Minutes(L1DistanceKm \div 60, solar_wind_speed.v))
    ELSE Ok(Minutes(DefaultPropagationMinutes, 1))

(* the loop of fetch_ace_data over 'swepam' then 'mag'; the second request
   is issued only when the first iteration raised nothing *)
AceBody(g1, g2) ==
    IF g1.exc # "none" THEN Raise(g1.exc)
    ELSE IF ~g1.data.header THEN Raise("IndexError")
    ELSE IF g2.exc # "none" THEN Raise(g2.exc)
    ELSE IF ~g2.data.header THEN Raise("IndexError")
    ELSE LET current_speed == IF g1.data.rows # <<>>
                              THEN g1.data.rows[Len(g1.data.rows)].speed ELSE None
             current_bz == IF g2.data.rows # <<>>
                           THEN g2.data.rows[Len(g2.data.rows)].bz_gsm ELSE None
             propagation == calculate_propagation_time(current_speed)
         IN  IF propagation.exc # "none" THEN Raise(propagation.exc)
             ELSE Ok([plasma |-> [current_speed |-> current_speed],
                      magnetic |-> [current_bz |-> current_bz],
                      propagation_time_minutes |-> propagation.val])

fetch_ace_data(r1, r2) ==
    LET g1 == SessionGet(URL_plasma1, r1)
        g2 == SessionGet(URL_mag1, r2)
        t == TryExcept(AceBody(g1, g2), Empty)
    IN  [ret |-> t.ret, raised |-> t.raised,
         log |-> IF g1.exc # "none" \/ ~g1.data.header
                 THEN g1.log ELSE g1.log \o g2.log]

(* str.lower() on the characters a satellite type can contain *)
LowerChar(c) == IF c = "G" THEN "g" ELSE IF c = "A" THEN "a" ELSE c
(* satellite_type == 'goes' without .lower() *)
LowerIdentity(str) == str

Lower(str) == [i \in 1..Len(str) |-> LowerChar(str[i])]

(* the three GOES fetches under one shared try: one failing feed empties
   all three entries *)
fetch_latest_data_shared_try(satellite_type, today, feeds) ==
    IF Lower(satellite_type) = <<"g", "o", "e", "s">>
    THEN LET x == fetch_goes_xray_data(feeds.xray)
             p == fetch_goes_proton_data(today, feeds.proton)
             m == fetch_goes_magnetometer_data(feeds.magnetometer)
             failed == \E f \in {feeds.xray, feeds.proton, feeds.magnetometer} :
                           f.status # "ok"
         IN  [ret |-> IF failed
                      THEN [xray |-> Empty, proton |-> Empty, magnetometer |-> Empty]
                      ELSE [xray |-> x.ret, proton |-> p.ret, magnetometer |-> m.ret],
              raised |-> x.raised \/ p.raised \/ m.raised,
              log |-> x.log \o p.log \o m.log]
    ELSE IF Lower(satellite_type) = <<"a", "c", "e">>
    THEN fetch_ace_data(feeds.plasma, feeds.mag)
    ELSE [ret |-> [error |-> [message |-> "Unknown satellite type", type |-> satellite_type]],
          raised |-> FALSE, log |-> <<>>]

(* feeds maps each feed the call may request to the response it receives *)
fetch_latest_data(satellite_type, today, feeds) ==
    IF Lower(satellite_type) = <<"g", "o", "e", "s">>
    THEN LET x == fetch_goes_xray_data(feeds.xray)
             p == fetch_goes_proton_data(today, feeds.proton)
             m == fetch_goes_magnetometer_data(feeds.magnetometer)
         IN  [ret |-> [xray |-> x.ret, proton |-> p.ret, magnetometer |-> m.ret],
              raised |-> x.raised \/ p.raised \/ m.raised,
              log |-> x.log \o p.log \o m.log]
    ELSE IF Lower(satellite_type) = <<"a", "c", "e">>
    THEN fetch_ace_data(feeds.plasma, feeds.mag)
    ELSE [ret |-> [error |-> [message |-> "Unknown satellite type", type |-> satellite_type]],
          raised |-> FALSE, log |-> <<>>]

(***************************************************************************)
(* SolarAnalyzer                                                           *)
(***************************************************************************)
SolarIndicesBody(g) ==
    IF g.exc # "none" THEN Raise(g.exc)
    ELSE IF g.data.rows = <<>> THEN Ok(Empty)
    ELSE LET latest == g.data.rows[Len(g.data.rows)]
         IN  Ok([sunspot_number |-> latest.ssn])

fetch_solar_indices(r) ==
    LET g == SessionGet(URL_indices, r)
        t == TryExcept(SolarIndicesBody(g), Empty)
    IN  [ret |-> t.ret, raised |-> t.raised, log |-> g.log]

(* substring tests on the magnetic classes of RegionEntries; "null" is a
   JSON null, on which `in` and .lower() raise *)
ContainsBetaGamma(c) == c \in {"beta-gamma", "beta-gamma-delta"}
ContainsDelta(c) == c \in {"delta", "beta-gamma-delta"}
LowerContainsDelta(c) == c \in {"delta", "beta-gamma-delta", "Beta-Gamma-Delta"}

assess_flare_potential(regions) ==
    LET n == Len(regions)
        complex_count == Cardinality({i \in 1..n : LowerContainsDelta(regions[i].class)})
        large_regions == Cardinality({i \in 1..n : regions[i].area.v > LargeArea})
    IN  IF regions = <<>> THEN Ok("Very Low")
        ELSE IF \E i \in 1..n : regions[i].class = "null" THEN Raise("AttributeError")
        ELSE IF \E i \in 1..n : regions[i].area.t = "none" THEN Raise("TypeError")
        ELSE IF complex_count >= 2 \/ large_regions >= 3 THEN Ok("High")
        ELSE IF complex_count >= 1 \/ large_regions >= 2 THEN Ok("Moderate")
        ELSE IF n >= 5 THEN Ok("Low-Moderate")
        ELSE Ok("Low")

SunspotBody(g) ==
    IF g.exc # "none" THEN Raise(g.exc)
    ELSE LET IsActive(region) == region.status = "active"
             active == SelectSeq(g.data.rows, IsActive)
             active_regions ==
                 [i \in 1..Len(active) |->
                     [number |-> active[i].region, area |-> active[i].area,
                      class |-> active[i].mag_class]]
             IsComplex(region) ==
                 ContainsBetaGamma(region.mag_class) \/ ContainsDelta(region.mag_class)
             complex_regions == SelectSeq(active, IsComplex)
             flare_potential == assess_flare_potential(active_regions)
         IN  IF \E i \in 1..Len(active) : active[i].mag_class = "null"
             THEN Raise("TypeError")
             ELSE IF flare_potential.exc # "none" THEN Raise(flare_potential.exc)
             ELSE Ok([total_regions |-> Len(active_regions),
                      complex_regions |-> Len(complex_regions),
                      regions |-> SubSeq(active_regions, 1,
                                         Min(Len(active_regions), MaxListedRegions)),
                      flare_potential |-> flare_potential.val])

fetch_sunspot_data(r) ==
    LET g == SessionGet(URL_regions, r)
        t == TryExcept(SunspotBody(g), Empty)
    IN  [ret |-> t.ret, raised |-> t.raised, log |-> g.log]

(* 24h flare counts handed to _classify_activity_level: the four-key
   dictionaries its callers build, and dictionaries with keys left out *)
FlareCounts ==
    [X : {0, 1, 2}, M : {0, 1, 2, 3}, C : {0, 1, 4, 5, 10}, B : {0, 1, 3}]
        \cup {Empty, [M |-> 1], [C |-> 5, B |-> 3]}

(* the C >= 5 test placed before the M >= 1 test *)
classify_activity_level_c_first(flare_counts) ==
    IF Get(flare_counts, "X", 0) > 0 THEN "Very High"
    ELSE IF Get(flare_counts, "M", 0) >= 3 THEN "High"
    ELSE IF Get(flare_counts, "C", 0) >= 5 THEN "Low-Moderate"
    ELSE IF Get(flare_counts, "M", 0) >= 1 THEN "Moderate"
    ELSE IF Get(flare_counts, "C", 0) >= 1 THEN "Low"
    ELSE IF Get(flare_counts, "B", 0) >= 1 THEN "Very Low"
    ELSE "Quiet"

classify_activity_level(flare_counts) ==
    IF Get(flare_counts, "X", 0) > 0 THEN "Very High"
    ELSE IF Get(flare_counts, "M", 0) >= 3 THEN "High"
    ELSE IF Get(flare_counts, "M", 0) >= 1 THEN "Moderate"
    ELSE IF Get(flare_counts, "C", 0) >= 5 THEN "Low-Moderate"
    ELSE IF Get(flare_counts, "C", 0) >= 1 THEN "Low"
    ELSE IF Get(flare_counts, "B", 0) >= 1 THEN "Very Low"
    ELSE "Quiet"

(* `if time_str:` *)
TimeTruthy(s) == s.fmt \notin {"empty", "absent"}

(* the instant a timestamp string denotes, in UTC hours: strptime with the
   'Z' format, else datetime.fromisoformat, a zone-less value taken as UTC *)
ParseTime(s) ==
    IF s.fmt \in {"Z", "naive"} THEN Ok(s.clock)
    ELSE IF s.fmt = "offset" THEN Ok(s.clock - s.off)
    ELSE Raise("ValueError")

(* str <= str: '' before everything, timestamps of one shape by their
   wall-clock text and then by their suffix ('' < '+hh:00' < 'Z'), other
   text after the digits *)
StrLe(a, b) ==
    LET Major(x) == IF x.fmt \in {"empty", "absent"} THEN 0
                    ELSE IF x.fmt = "bad" THEN 2 ELSE 1
        Suffix(x) == IF x.fmt = "naive" THEN 0 ELSE IF x.fmt = "offset" THEN 1 ELSE 2
    IN  \/ Major(a) < Major(b)
        \/ /\ Major(a) = Major(b)
           /\ \/ Major(a) # 1
              \/ a.clock < b.clock
              \/ a.clock = b.clock /\ Suffix(a) < Suffix(b)
              \/ a.clock = b.clock /\ Suffix(a) = Suffix(b) /\ a.off <= b.off

(* key=lambda x: x['peak'] if x['peak'] else x['begin'] *)
SortKey(x) == IF TimeTruthy(x.peak) THEN x.peak ELSE x.begin

(* list.sort(key=..., reverse=True): descending by the key strings, entries
   with equal keys in their original order *)
SortDescending(list) ==
    LET n == Len(list)
        Sorted(keys) ==
            LET Before(j, i) ==
                    \/ ~StrLe(keys[j], keys[i])
                    \/ j < i /\ StrLe(keys[i], keys[j])
                Place(position) ==
                    [k \in 1..n |-> list[CHOOSE i \in 1..n : position[i] = k]]
            IN  With([i \in 1..n |-> 1 + Cardinality({j \in 1..n : Before(j, i)})],
                     Place)
    IN  With([i \in 1..n |-> SortKey(list[i])], Sorted)

UpperChar(c) ==
    IF c = "x" THEN "X" ELSE IF c = "m" THEN "M" ELSE IF c = "c" THEN "C"
    ELSE IF c = "b" THEN "B" ELSE c

CountedClasses == {"B", "C", "M", "X"}
(* the counts dictionary over a list of class letters *)
CountLetters(letters) ==
    [c \in CountedClasses |-> Cardinality({i \in 1..Len(letters) : letters[i] = c})]

(* region_num of a listed flare: f"AR{number}", the plain number of the HEK
   event, or '' *)
RegionNum(kind, number) == [kind |-> kind, number |-> number]
NoRegion == RegionNum("", None)

(* the first element of a non-empty list with the greatest score, as max()
   returns it *)
FirstMax(list, Score(_)) ==
    list[CHOOSE i \in 1..Len(list) :
            /\ \A j \in 1..Len(list) : Score(list[j]) <= Score(list[i])
            /\ \A j \in 1..(i - 1) : Score(list[j]) < Score(list[i])]

AllNumeric(list, keys) ==
    \A i \in 1..Len(list) : \A k \in keys : list[i][k].t = "num"

(* the source region of a flare of class letter flare_class (lines 248-302);
   a comparison or a sum with a None field raises TypeError *)
attribute_region(flare_class, regions_data) ==
    LET Listed(region) ==
            /\ region.region.t = "num" /\ region.region.v # 0
            /\ region.location # ""
        today_regions == SelectSeq(regions_data, Listed)
        events == IF flare_class = "X" THEN "x_xray_events"
                  ELSE IF flare_class = "M" THEN "m_xray_events"
                  ELSE "c_xray_events"
        probability == IF flare_class = "X" THEN "x_flare_probability"
                       ELSE IF flare_class = "M" THEN "m_flare_probability"
                       ELSE "c_flare_probability"
        threshold == IF flare_class = "X" THEN 10
                     ELSE IF flare_class = "M" THEN 20 ELSE 30
        HasEvents(r) == r[events].v > 0
        IsProbable(r) == r[probability].v >= threshold
        by_events == SelectSeq(today_regions, HasEvents)
        candidates == IF by_events # <<>> THEN by_events
                      ELSE SelectSeq(today_regions, IsProbable)
        Activity(r) == r.x_xray_events.v * 100 + r.m_xray_events.v * 10
                           + r.c_xray_events.v
        Complexity(r) ==
            (IF r.mag_class \in {"BGD", "BG", "BD"} THEN 1 ELSE 0) * 1000
                + r.area.v + r.c_flare_probability.v
                + r.m_flare_probability.v * 10 + r.x_flare_probability.v * 100
        Attributed(best_region) ==
            [region |-> RegionNum("AR", best_region.region),
             location |-> best_region.location]
    IN  IF today_regions = <<>>
        THEN Ok([region |-> NoRegion, location |-> ""])
        ELSE IF ~AllNumeric(today_regions, {events}) THEN Raise("TypeError")
        ELSE IF by_events = <<>> /\ ~AllNumeric(today_regions, {probability})
        THEN Raise("TypeError")
        ELSE IF candidates # <<>>
        THEN IF AllNumeric(candidates,
                           {"x_xray_events", "m_xray_events", "c_xray_events"})
             THEN Ok(Attributed(FirstMax(candidates, Activity)))
             ELSE Raise("TypeError")
        ELSE IF AllNumeric(today_regions,
                           {"area", "c_flare_probability", "m_flare_probability",
                            "x_flare_probability"})
        THEN Ok(Attributed(FirstMax(today_regions, Complexity)))
        ELSE Raise("TypeError")

(* the pass that looks up a source region only for the flares of the last
   24 hours and leaves older flares of the period without one *)
NoaaFlareRecentOnly(flare, today, regions_data) ==
    LET max_class == flare.max_class
        flare_class == UpperChar(max_class[1])
        flare_time == ParseTime(flare.max_time)
        cutoff_time == today * 24 - RecentHours
        cutoff_3d == today * 24 - PeriodDays * 24
        in_period == /\ max_class # <<>>
                     /\ TimeTruthy(flare.max_time)
                     /\ flare_time.exc = "none"
                     /\ flare_time.val > cutoff_3d
        source == IF in_period /\ flare_time.val > cutoff_time
                  THEN attribute_region(flare_class, regions_data)
                  ELSE Ok([region |-> NoRegion, location |-> ""])
    IN  [letter |-> IF max_class # <<>> THEN flare_class ELSE "",
         counted_3d |-> in_period,
         counted_24h |-> in_period /\ flare_time.val > cutoff_time,
         appended |-> in_period /\ source.exc = "none",
         entry |-> IF in_period /\ source.exc = "none"
                   THEN [class |-> max_class, begin |-> flare.begin_time,
                         peak |-> flare.max_time, end |-> flare.end_time,
                         region |-> source.val.region,
                         location |-> source.val.location,
                         intensity |-> flare.max_xrlong]
                   ELSE Empty]

(* one pass of the loop over the NOAA flares (lines 216-316): whether the
   flare is counted for the period and for the last 24 hours, and the entry
   appended to recent_flares, if any.  The counters are incremented before
   the region is looked up; an exception in the body skips the append *)
NoaaFlare(flare, today, regions_data) ==
    LET max_class == flare.max_class
        flare_class == UpperChar(max_class[1])
        flare_time == ParseTime(flare.max_time)
        cutoff_time == today * 24 - RecentHours
        cutoff_3d == today * 24 - PeriodDays * 24
        in_period == /\ max_class # <<>>
                     /\ TimeTruthy(flare.max_time)
                     /\ flare_time.exc = "none"
                     /\ flare_time.val > cutoff_3d
        source == attribute_region(flare_class, regions_data)
    IN  [letter |-> IF max_class # <<>> THEN flare_class ELSE "",
         counted_3d |-> in_period,
         counted_24h |-> in_period /\ flare_time.val > cutoff_time,
         appended |-> in_period /\ source.exc = "none",
         entry |-> IF in_period /\ source.exc = "none"
                   THEN [class |-> max_class, begin |-> flare.begin_time,
                         peak |-> flare.max_time, end |-> flare.end_time,
                         region |-> source.val.region,
                         location |-> source.val.location,
                         intensity |-> flare.max_xrlong]
                   ELSE Empty]

(* one pass of the loop over the HEK events (lines 135-160) *)
HekFlare(entry) ==
    LET goes_class == entry.fl_goescls
        peak_time == IF entry.event_peaktime.fmt = "absent"
                     THEN entry.event_starttime ELSE entry.event_peaktime
        Str(t) == IF TimeTruthy(t) THEN t ELSE NoTime
    IN  [letter |-> IF goes_class # <<>> THEN UpperChar(goes_class[1]) ELSE "",
         appended |-> goes_class # <<>>,
         entry |-> IF goes_class # <<>>
                   THEN [class |-> goes_class, begin |-> Str(entry.event_starttime),
                         peak |-> Str(peak_time), end |-> Str(entry.event_endtime),
                         region |-> RegionNum("", entry.ar_noaanum),
                         location |-> "N0 0",
                         intensity |-> Num(0)]
                   ELSE Empty]

(* the entries appended to recent_flares, in the order of the loop *)
Appended(passes) ==
    LET IsAppended(p) == p.appended
        Entries(kept) == [i \in 1..Len(kept) |-> kept[i].entry]
    IN  With(SelectSeq(passes, IsAppended), Entries)
LettersWhere(passes, Counted(_)) ==
    LET Letters(kept) == [i \in 1..Len(kept) |-> kept[i].letter]
    IN  With(SelectSeq(passes, Counted), Letters)

(* the 24h count of the SunPy path (lines 166-176): fromisoformat of the
   peak string; '' raises ValueError and a zone-less time compared with the
   zone-aware cutoff raises TypeError, both swallowed by the bare except *)
HekRecent(flare, today) ==
    /\ flare.peak.fmt \in {"Z", "offset"}
    /\ ParseTime(flare.peak).val > today * 24 - RecentHours

(* the SunPy path (lines 107-185), taken when the HEK search returns events *)
SunPyFlares(hek, today) ==
    LET IsAppended(p) == p.appended
        IsRecent(flare) == HekRecent(flare, today)
        Result(passes) ==
            LET Listed(recent_flares) ==
                    LET recent == SelectSeq(recent_flares, IsRecent)
                        flare_counts_24h ==
                            CountLetters([i \in 1..Len(recent) |->
                                             UpperChar(recent[i].class[1])])
                    IN  [counts_24h |-> flare_counts_24h,
                         counts_3d |-> CountLetters(LettersWhere(passes, IsAppended)),
                         recent_flares |->
                             SubSeq(recent_flares, 1,
                                    Min(Len(recent_flares), MaxListedFlares)),
                         activity_level |-> classify_activity_level(flare_counts_24h),
                         data_source |-> "SunPy HEK"]
            IN  With(SortDescending(Appended(passes)), Listed)
    IN  With([i \in 1..Len(hek) |-> HekFlare(hek[i])], Result)

(* the regions request inside the NOAA path: any failure leaves [] *)
RegionsData(r) == IF r.status = "ok" THEN r.rows ELSE <<>>

NoaaFlaresBody(g, today, rr) ==
    LET In3d(p) == p.counted_3d
        In24h(p) == p.counted_24h
        Result(passes) ==
            LET Listed(recent_flares) ==
                    LET flare_counts_24h == CountLetters(LettersWhere(passes, In24h))
                    IN  [counts_24h |-> flare_counts_24h,
                         counts_3d |-> CountLetters(LettersWhere(passes, In3d)),
                         recent_flares |->
                             SubSeq(recent_flares, 1,
                                    Min(Len(recent_flares), MaxListedFlares)),
                         activity_level |-> classify_activity_level(flare_counts_24h),
                         data_source |-> "NOAA GOES"]
            IN  With(SortDescending(Appended(passes)), Listed)
    IN  IF g.exc # "none" THEN Raise(g.exc)
        ELSE Ok(With([i \in 1..Len(g.data.rows) |->
                         NoaaFlare(g.data.rows[i], today, RegionsData(rr))],
                     Result))

NoFlares ==
    [counts_24h |-> CountLetters(<<>>), counts_3d |-> CountLetters(<<>>),
     recent_flares |-> <<>>, activity_level |-> "Unknown", data_source |-> "None"]

(* hek is the list of events the SunPy search returned, <<>> when SunPy is
   not installed, the search raised or it found nothing; rf and rr are the
   responses of the flares and regions feeds *)
fetch_recent_flares(hek, today, rf, rr) ==
    IF hek # <<>>
    THEN [ret |-> SunPyFlares(hek, today), raised |-> FALSE, log |-> <<>>]
    ELSE LET g == SessionGet(URL_flares, rf)
             Caught(body) ==
                 LET t == TryExcept(body, NoFlares)
                 IN  [ret |-> t.ret, raised |-> t.raised,
                      log |-> IF g.exc = "none"
                              THEN g.log \o SessionGet(URL_regions, rr).log
                              ELSE g.log]
         IN  With(NoaaFlaresBody(g, today, rr), Caught)

(* arguments of _generate_assessment: the dictionaries the three fetchers
   return, {} when a fetcher failed *)
IndicesSamples ==
    {Empty} \cup {[sunspot_number |-> x] :
                    x \in {Num(0), Num(1), Num(29), Num(30), Num(79), Num(80),
                           Num(120), None}}
SunspotSamples ==
    {Empty} \cup {[complex_regions |-> c, flare_potential |-> p] :
                    c \in {0, 2}, p \in {"High", "Moderate", "Low"}}
FlareSamples ==
    {[activity_level |-> l] : l \in {"Very High", "High", "Moderate", "Unknown"}}

(* one entry of key_risks: its wording, and the label or count formatted
   into it *)
Risk(text, label, count) == [text |-> text, label |-> label, count |-> count]

(* _generate_assessment; `if indices.get('sunspot_number')` is false for a
   missing key, for None and for 0 *)
generate_assessment(indices, sunspots, flares) ==
    LET ssn == Get(indices, "sunspot_number", None)
        level == Get(flares, "activity_level", "None")
        potential == Get(sunspots, "flare_potential", "None")
        complex == Get(sunspots, "complex_regions", 0)
        blackout == level \in {"High", "Very High"}
        significant == potential \in {"High", "Moderate"}
    IN  [solar_cycle_phase |->
             IF ssn.t = "none" \/ (ssn.t = "num" /\ ssn.v = 0) THEN "Unknown"
             ELSE IF ssn.t = "num" /\ ssn.v < 30 THEN "Minimum"
             ELSE IF ssn.t = "num" /\ ssn.v < 80 THEN "Rising/Declining"
             ELSE "Maximum",
         activity_trend |-> "Unknown",
         forecast_confidence |-> "Medium",
         key_risks |->
             (IF blackout
              THEN <<Risk("Elevated risk of radio blackouts", "None", 0)>> ELSE <<>>)
             \o (IF significant
                 THEN <<Risk("potential for significant flares", potential, 0)>>
                 ELSE <<>>)
             \o (IF complex > 0
                 THEN <<Risk("magnetically complex regions present", "None", complex)>>
                 ELSE <<>>),
         recommendations |->
             (IF blackout THEN <<"Monitor HF radio communications">> ELSE <<>>)
             \o (IF significant
                 THEN <<"Prepare for possible geomagnetic disturbances">>
                 ELSE <<>>)]

(***************************************************************************)
(* Request lifecycle                                                       *)
(***************************************************************************)
(* __init__ of each collector: the base url and a requests.Session, kept as
   an opaque object *)
CollectorFields ==
    [noaa_base_url |-> "https://services.swpc.noaa.gov", session |-> "Session"]
Collectors ==
    [space_weather |-> CollectorFields, satellite |-> CollectorFields,
     solar |-> CollectorFields]

Init ==
    /\ pc = "idle"
    /\ op = "none"
    /\ arg = <<>>
    /\ resp = <<>>
    /\ requests = <<>>
    /\ result = <<>>
    /\ raised = FALSE
    /\ now = 0
    /\ collector = Collectors
    /\ served = FALSE

(* Requests after the first one are explored over fewer inputs: feeds that
   deliver the same response to both fetches of one call, and short
   operands *)
SteadyLater(r1, r2, r3, r4) == served => (r3 = r1 /\ r4 = r2)
ShortLater(n) == served => n <= 1

(* the operation keeps its last result on the collector and answers later
   requests from it *)
FinishCached(o, a, rs, out) ==
    /\ pc = "idle"
    /\ pc' = "done"
    /\ op' = o
    /\ arg' = a
    /\ resp' = rs
    /\ requests' = out.log
    /\ result' = IF "cache" \in DOMAIN collector THEN collector.cache ELSE out.ret
    /\ raised' = out.raised
    /\ collector' = [space_weather |-> CollectorFields, satellite |-> CollectorFields,
                     solar |-> CollectorFields, cache |-> out.ret]
    /\ UNCHANGED <<now, served>>

(* no operation assigns a field of its collector *)
Finish(o, a, rs, out) ==
    /\ pc = "idle"
    /\ pc' = "done"
    /\ op' = o
    /\ arg' = a
    /\ resp' = rs
    /\ requests' = out.log
    /\ result' = out.ret
    /\ raised' = out.raised
    /\ UNCHANGED <<now, collector, served>>

CallSolarWind ==
    /\ pc = "idle"
    /\ \E r \in SolarWindResponses :
        Finish("fetch_solar_wind_data", <<>>, <<r>>, fetch_solar_wind_data(r))

CallMagnetometer ==
    /\ pc = "idle"
    /\ \E r \in MagResponses :
        Finish("fetch_magnetometer_data", <<>>, <<r>>, fetch_magnetometer_data(r))

CallDst ==
    /\ pc = "idle"
    /\ \E r1 \in SolarWindResponses, r2 \in MagResponses :
        Finish("calculate_dst_estimate", <<>>, <<r1, r2>>,
               calculate_dst_estimate(r1, r2))

CallForecast ==
    /\ pc = "idle"
    /\ \E days \in -1..MaxDays, r1, r3 \in SolarWindFeed, r2, r4 \in MagFeed :
        /\ SteadyLater(r1, r2, r3, r4)
        /\ Finish("generate_forecast", <<days>>, <<r1, r2, r3, r4>>,
                  generate_forecast(days, now, r1, r2, r3, r4))

CallForecastDefault ==
    /\ pc = "idle"
    /\ \E r1, r3 \in SolarWindFeed, r2, r4 \in MagFeed :
        /\ SteadyLater(r1, r2, r3, r4)
        /\ Finish("generate_forecast", <<>>, <<r1, r2, r3, r4>>,
                  generate_forecast(DefaultDays, now, r1, r2, r3, r4))

CallAlerts ==
    /\ pc = "idle"
    /\ \E r1, r3 \in SolarWindFeed, r2, r4 \in MagFeed :
        /\ SteadyLater(r1, r2, r3, r4)
        /\ Finish("check_alerts", <<>>, <<r1, r2, r3, r4>>,
                  check_alerts(now, r1, r2, r3, r4))

CallEstimateKp ==
    /\ pc = "idle"
    /\ \E p \in ProbGrid :
        Finish("_estimate_kp", <<p>>, <<>>,
               [ret |-> estimate_kp(p), raised |-> FALSE, log |-> <<>>])

CallConditionDescription ==
    /\ pc = "idle"
    /\ \E p \in ProbGrid :
        Finish("_get_condition_description", <<p>>, <<>>,
               [ret |-> get_condition_description(p), raised |-> FALSE, log |-> <<>>])

CallClassifyXray ==
    /\ pc = "idle"
    /\ \E flux \in FluxGrid :
        LET c == classify_xray_flux(flux)
        IN  Finish("_classify_xray_flux", <<flux>>, <<>>,
                   [ret |-> c.val, raised |-> c.exc # "none", log |-> <<>>])

CallXray ==
    /\ pc = "idle"
    /\ \E r \in XrayResponses :
        Finish("fetch_goes_xray_data", <<>>, <<r>>, fetch_goes_xray_data(r))

CallProton ==
    /\ pc = "idle"
    /\ \E r \in ProtonResponses :
        Finish("fetch_goes_proton_data", <<>>, <<r>>, fetch_goes_proton_data(now, r))

CallClassifyDisturbance ==
    /\ pc = "idle"
    /\ \E x \in VariationGrid :
        Finish("_classify_disturbance", <<x>>, <<>>,
               [ret |-> classify_disturbance(VariationOf(x)),
                raised |-> FALSE, log |-> <<>>])

CallGoesMag ==
    /\ pc = "idle"
    /\ \E r \in GoesMagResponses :
        Finish("fetch_goes_magnetometer_data", <<>>, <<r>>,
               fetch_goes_magnetometer_data(r))

CallAce ==
    /\ pc = "idle"
    /\ \E r1 \in SolarWindResponses, r2 \in MagResponses :
        LET out == fetch_ace_data(r1, r2)
        IN  Finish("fetch_ace_data", <<>>,
                   IF Len(out.log) = 1 THEN <<r1>> ELSE <<r1, r2>>, out)

CallLatestGoes ==
    /\ pc = "idle"
    /\ \E t \in SatelliteTypes :
        /\ Lower(t) = <<"g", "o", "e", "s">>
        /\ \E rx \in ShortResponses(XrayEntries), rp \in ShortResponses(ProtonEntries),
                 rm \in ShortResponses(GoesMagEntries) :
              Finish("fetch_latest_data", <<t>>, <<rx, rp, rm>>,
                     fetch_latest_data(t, now,
                         [xray |-> rx, proton |-> rp, magnetometer |-> rm]))

CallLatestAce ==
    /\ pc = "idle"
    /\ \E t \in SatelliteTypes :
        /\ Lower(t) = <<"a", "c", "e">>
        /\ \E r1 \in SolarWindResponses, r2 \in MagResponses :
              LET out == fetch_latest_data(t, now, [plasma |-> r1, mag |-> r2])
              IN  Finish("fetch_latest_data", <<t>>,
                         IF Len(out.log) = 1 THEN <<r1>> ELSE <<r1, r2>>, out)

CallLatestOther ==
    /\ pc = "idle"
    /\ \E t \in SatelliteTypes :
        /\ Lower(t) # <<"g", "o", "e", "s">>
        /\ Lower(t) # <<"a", "c", "e">>
        /\ ShortLater(Len(t))
        /\ Finish("fetch_latest_data", <<t>>, <<>>, fetch_latest_data(t, now, Empty))

CallClassifyActivity ==
    /\ pc = "idle"
    /\ \E flare_counts \in FlareCounts :
        Finish("_classify_activity_level", <<flare_counts>>, <<>>,
               [ret |-> classify_activity_level(flare_counts),
                raised |-> FALSE, log |-> <<>>])

CallGenerateAssessment ==
    /\ pc = "idle"
    /\ \E indices \in IndicesSamples, sunspots \in SunspotSamples,
          flares \in FlareSamples :
        Finish("_generate_assessment", <<indices, sunspots, flares>>, <<>>,
               [ret |-> generate_assessment(indices, sunspots, flares),
                raised |-> FALSE, log |-> <<>>])

CallRecentFlaresSunPy ==
    /\ pc = "idle"
    /\ \E hek \in HekResults(now) :
        Finish("_fetch_recent_flares", <<hek>>, <<>>,
               fetch_recent_flares(hek, now, Failed("transport"),
                                   Failed("transport")))

CallRecentFlaresNoaa ==
    /\ pc = "idle"
    /\ \E feeds \in FlareFeeds(now) :
        LET rf == feeds[1]
            rr == feeds[2]
        IN  /\ ShortLater(Len(rf.rows) + Len(rr.rows))
            /\ Finish("_fetch_recent_flares", <<<<>>>>,
                      IF rf.status = "ok" THEN <<rf, rr>> ELSE <<rf>>,
                      fetch_recent_flares(<<>>, now, rf, rr))

CallSolarIndices ==
    /\ pc = "idle"
    /\ \E r \in IndexResponses :
        Finish("_fetch_solar_indices", <<>>, <<r>>, fetch_solar_indices(r))

CallSunspot ==
    /\ pc = "idle"
    /\ \E r \in RegionResponses :
        Finish("_fetch_sunspot_data", <<>>, <<r>>, fetch_sunspot_data(r))

Return ==
    /\ pc = "done"
    /\ pc' = "idle"
    /\ op' = "none"
    /\ arg' = <<>>
    /\ resp' = <<>>
    /\ requests' = <<>>
    /\ result' = <<>>
    /\ raised' = FALSE
    /\ served' = TRUE
    /\ UNCHANGED <<now, collector>>

Tick ==
    /\ pc = "idle"
    /\ now < MaxNow
    /\ now' = now + 1
    /\ UNCHANGED <<pc, op, arg, resp, requests, result, raised, collector, served>>

Next ==
    \/ CallSolarWind
    \/ CallMagnetometer
    \/ CallDst
    \/ CallForecast
    \/ CallForecastDefault
    \/ CallAlerts
    \/ CallEstimateKp
    \/ CallConditionDescription
    \/ CallClassifyXray
    \/ CallXray
    \/ CallProton
    \/ CallClassifyDisturbance
    \/ CallGoesMag
    \/ CallAce
    \/ CallLatestGoes
    \/ CallLatestAce
    \/ CallLatestOther
    \/ CallClassifyActivity
    \/ CallGenerateAssessment
    \/ CallRecentFlaresSunPy
    \/ CallRecentFlaresNoaa
    \/ CallSolarIndices
    \/ CallSunspot
    \/ Return
    \/ Tick

Spec == Init /\ [][Next]_vars

(***************************************************************************)
(* Properties                                                              *)
(***************************************************************************)
Done(o) == pc = "done" /\ op = o

(* what a response delivers as the current value of a column *)
HasRows(r) == r.status = "ok" /\ r.header /\ r.rows # <<>>
LastRow(r) == r.rows[Len(r.rows)]
SpeedOf(r) == IF HasRows(r) THEN CurrentOf(LastRow(r).speed) ELSE None
BzOf(r) == IF HasRows(r) THEN CurrentOf(LastRow(r).bz_gsm) ELSE None
Gt(x, n) == x.t = "num" /\ x.v > n
Lt(x, n) == x.t = "num" /\ x.v < n
Ind(b, w) == IF b THEN w ELSE 0
RequestedDays == IF arg = <<>> THEN DefaultDays ELSE arg[1]
PredictionCount == IF RequestedDays < 0 THEN 0 ELSE RequestedDays
AllFailed == \A i \in 1..Len(resp) : resp[i].status # "ok"

(* C1: calculate_dst_estimate never raises, and whenever the current Bz is
   missing (magnetometer feed absent or its last Bz sample non-numeric) it
   returns exactly -2.0, whatever the solar-wind feed delivers *)
C1_MissingBzGivesQuietFloor ==
    (Done("calculate_dst_estimate") /\ BzOf(resp[2]) = None)
        => (~raised /\ result = DstNum(-1, 4))

AlertPresent(level, type) ==
    \E i \in 1..Len(result) : result[i].level = level /\ result[i].type = type
(* C2: check_alerts returns the solar_wind warning iff speed > 700, the
   magnetic_field alert iff Bz < -15, the geomagnetic_storm severe alert iff
   Dst < -100 and the sustained_southward warning iff the southward duration
   exceeds 180 minutes, each decided independently of the other three, also
   when another metric is missing *)
C2_AlertsIndependent ==
    Done("check_alerts") =>
        LET dst == calculate_dst_estimate(resp[3], resp[4]).ret
            dur == IF HasRows(resp[2])
                   THEN SouthwardCount(resp[2].rows) * SampleMinutes ELSE 0
        IN  /\ AlertPresent("warning", "solar_wind") <=> Gt(SpeedOf(resp[1]), 700)
            /\ AlertPresent("alert", "magnetic_field") <=> Lt(BzOf(resp[2]), -15)
            /\ AlertPresent("severe", "geomagnetic_storm") <=> DstLt(dst, -100)
            /\ AlertPresent("warning", "sustained_southward") <=> dur > 180
            /\ Len(result) <= 4

(* C3: in every prediction returned by generate_forecast the storm
   probability is min(0.95, 0.1 + 0.3*[speed>600] + 0.4*[Bz<-10] +
   0.2*[Dst<-50]) of the reported current conditions, hence within
   [0.1, 0.95] *)
C3_StormProbabilityFormula ==
    (Done("generate_forecast") /\ "predictions" \in DOMAIN result) =>
        LET cc == result.current_conditions
            raw == 10 + Ind(Gt(cc.solar_wind_speed, 600), 30)
                      + Ind(Lt(cc.bz_component, -10), 40)
                      + Ind(cc.dst_index.t = "num" /\ cc.dst_index.sign = -1
                            /\ cc.dst_index.sq > 50 * 50, 20)
        IN  \A i \in 1..Len(result.predictions) :
                /\ result.predictions[i].storm_probability = Min(raw, 95)
                /\ result.predictions[i].storm_probability \in 10..95
C3_Witness ==
    /\ Done("generate_forecast")
    /\ "predictions" \in DOMAIN result
    /\ Len(result.predictions) >= 1
    /\ result.current_conditions.solar_wind_speed = Num(1000)
    /\ result.current_conditions.bz_component = Num(-20)
    /\ result.current_conditions.dst_index = DstNum(-1, 60 * 60)
    /\ result.predictions[1].storm_probability = 95

(* C4: when both feeds deliver a numeric current speed V and current Bz,
   calculate_dst_estimate returns -2.0 if Bz >= 0 and -20*sqrt(V/400)*|Bz|,
   the non-positive number whose square is V*Bz*Bz, if Bz < 0 (nan when V is
   negative, where the square root is undefined); the result is never
   positive *)
C4_DstFormula ==
    Done("calculate_dst_estimate") =>
        LET V == SpeedOf(resp[1])
            B == BzOf(resp[2])
        IN  /\ ~(result.t = "num" /\ result.sign > 0)
            /\ (V.t = "num" /\ B.t = "num") =>
                 /\ B.v >= 0 => result = DstNum(-1, 4)
                 /\ (B.v < 0 /\ V.v >= 0) =>
                      /\ result.t = "num"
                      /\ result.sq = V.v * B.v * B.v
                      /\ result.sign = -1
                 /\ (B.v < 0 /\ V.v < 0) => result.t = "nan"
C4_Witness ==
    /\ Done("calculate_dst_estimate")
    /\ SpeedOf(resp[1]) = Num(400)
    /\ BzOf(resp[2]) = Num(-10)
    /\ result = DstNum(-1, 200 * 200)

(* C5: generate_forecast(days) returns exactly `days` predictions (3 by
   default, none when days <= 0), the k-th dated k days after the time of the
   call, all with the same storm_probability, expected_kp and
   expected_conditions *)
C5_PredictionsPerDay ==
    Done("generate_forecast") =>
        /\ "predictions" \in DOMAIN result
        /\ Len(result.predictions) = PredictionCount
        /\ \A k \in 1..Len(result.predictions) :
              /\ result.predictions[k].date = now + k
              /\ result.predictions[k].storm_probability
                    = result.predictions[1].storm_probability
              /\ result.predictions[k].expected_kp
                    = result.predictions[1].expected_kp
              /\ result.predictions[k].expected_conditions
                    = result.predictions[1].expected_conditions

KpBreakpoints == {20, 40, 60, 80}
ConditionLabels ==
    <<"Quiet to unsettled", "Active conditions likely", "Minor storm possible",
      "Moderate storm likely", "Strong storm expected">>
IntervalOf(p) == 1 + Cardinality({b \in KpBreakpoints : b <= p})
(* C6: expected_kp is 3, 4, 5, 6, 7 for p below 0.2, 0.4, 0.6, 0.8 and from
   0.8 on, expected_conditions is the label of the same interval, so Kp lies
   in 3..7, is non-decreasing in p, and Kp and label designate the same
   interval *)
C6_KpAndLabelTable ==
    /\ Done("_estimate_kp") => result = 2 + IntervalOf(arg[1])
    /\ Done("_get_condition_description") =>
          result = ConditionLabels[IntervalOf(arg[1])]
    /\ (Done("generate_forecast") /\ "predictions" \in DOMAIN result) =>
          \A i \in 1..Len(result.predictions) :
              LET pr == result.predictions[i]
              IN  /\ pr.expected_kp = 2 + IntervalOf(pr.storm_probability)
                  /\ pr.expected_conditions = ConditionLabels[pr.expected_kp - 2]
C6_Witness ==
    /\ Done("_estimate_kp")
    /\ arg[1] = 20
    /\ result = 4

(* C8: when every upstream feed is unavailable, generate_forecast(N) returns
   a forecast without an 'error' key whose N predictions all have
   storm_probability 0.1, expected_kp 3 and 'Quiet to unsettled', and
   check_alerts returns an empty list; neither raises *)
C8_DegradedFeeds ==
    /\ (Done("generate_forecast") /\ AllFailed) =>
          /\ ~raised
          /\ "error" \notin DOMAIN result
          /\ "predictions" \in DOMAIN result
          /\ Len(result.predictions) = PredictionCount
          /\ \A i \in 1..Len(result.predictions) :
                /\ result.predictions[i].storm_probability = 10
                /\ result.predictions[i].expected_kp = 3
                /\ result.predictions[i].expected_conditions = "Quiet to unsettled"
    /\ (Done("check_alerts") /\ AllFailed) => (~raised /\ result = <<>>)
C8_Witness ==
    /\ Done("generate_forecast")
    /\ AllFailed
    /\ RequestedDays = 2
    /\ Len(result.predictions) = 2

Extractors ==
    {"fetch_solar_wind_data", "fetch_magnetometer_data", "fetch_goes_xray_data",
     "fetch_goes_proton_data", "fetch_goes_magnetometer_data", "fetch_ace_data",
     "_fetch_solar_indices", "_fetch_sunspot_data"}
NoRepeatedRequest ==
    \A i, j \in 1..Len(requests) : i # j => requests[i] # requests[j]
(* C7: every feed extractor returns an empty result and never raises when
   its request fails by transport error, HTTP error status or timeout, and it
   issues each request at most once per invocation *)
C7_FailedRequestGivesEmpty ==
    (pc = "done" /\ op \in Extractors) =>
        /\ NoRepeatedRequest
        /\ Len(requests) = Len(resp)
        /\ (\E i \in 1..Len(resp) : resp[i].status \in FailStatus) =>
              (~raised /\ DOMAIN result = {})
C7_Witness ==
    /\ Done("fetch_ace_data")
    /\ Len(resp) = 2
    /\ resp[1].status = "ok"
    /\ resp[2].status = "timeout"
    /\ DOMAIN result = {}

CaseForms(c) == IF c = "g" THEN {"g", "G"} ELSE IF c = "a" THEN {"a", "A"} ELSE {c}
SpelledAs(t, word) ==
    Len(t) = Len(word) /\ \A i \in 1..Len(word) : t[i] \in CaseForms(word[i])
KnownType(t) == SpelledAs(t, <<"g", "o", "e", "s">>) \/ SpelledAs(t, <<"a", "c", "e">>)
(* C9: fetch_latest_data(t) for any t that is not 'goes' or 'ace' in some
   letter case returns only an 'error' entry naming t, without raising and
   without issuing a request; 'goes' and 'ace' in any letter case never
   yield that error *)
C9_UnknownTypeIsErrorResult ==
    Done("fetch_latest_data") =>
        /\ ~raised
        /\ ~KnownType(arg[1]) =>
              /\ DOMAIN result = {"error"}
              /\ result.error.type = arg[1]
              /\ requests = <<>>
        /\ KnownType(arg[1]) => "error" \notin DOMAIN result
C9_Witness ==
    /\ Done("fetch_latest_data")
    /\ arg[1] = <<"G", "o", "e">>
    /\ result.error.type = <<"G", "o", "e">>
    /\ requests = <<>>

ZeroPoints(r) == r.status = "ok" /\ r.rows = <<>>
(* C10: a successfully fetched feed that normalizes to a series with zero
   points (an empty array, or a header row with no data rows) yields the
   extractor's empty/default structure and never an exception; the proton
   extractor yields no channels with sep_event_in_progress false *)
C10_ZeroPointSeries ==
    /\ (pc = "done" /\ op \in Extractors /\ ZeroPoints(resp[1])) =>
          /\ ~raised
          /\ IF op = "fetch_goes_proton_data"
             THEN /\ DOMAIN result.channels = {}
                  /\ result.sep_event_in_progress = FALSE
             ELSE IF op = "_fetch_sunspot_data"
             THEN /\ result.total_regions = 0
                  /\ result.complex_regions = 0
                  /\ result.regions = <<>>
                  /\ result.flare_potential = "Very Low"
             ELSE DOMAIN result = {}
    /\ (Done("fetch_ace_data") /\ Len(resp) = 2 /\ ZeroPoints(resp[2])) =>
          /\ ~raised
          /\ DOMAIN result = {} \/ result.magnetic.current_bz = None
C10_Witness ==
    /\ Done("fetch_goes_proton_data")
    /\ ZeroPoints(resp[1])
    /\ DOMAIN result.channels = {}
    /\ ~result.sep_event_in_progress

FluxBreakpoints == <<10000, 100000, 1000000, 10000000, 100000000>>
FlareLetters == <<"A", "B", "C", "M", "X">>
LetterIndex(f) == 1 + Cardinality({k \in 1..4 : FluxBreakpoints[k] <= f})
(* C11: _classify_xray_flux maps every flux to exactly one class with
   half-open intervals closed on the left: below 1e-8 'A-class', [1e-8,1e-7)
   'B-class', [1e-7,1e-6) 'C-class', [1e-6,1e-5) 'M-class', [1e-5,1e-4)
   'X-class', and from 1e-4 on 'X{n}-class' with n the integer part of
   flux/1e-4; 1e-8 is 'B-class' and 9.999e-9 is 'A-class' *)
C11_FlareClassIntervals ==
    (Done("_classify_xray_flux") /\ arg[1].t = "num") =>
        LET f == arg[1].v
        IN  /\ ~raised
            /\ result.letter = FlareLetters[LetterIndex(f)]
            /\ f < FluxBreakpoints[5] => result.mult = 0
            /\ f >= FluxBreakpoints[5] =>
                  /\ result.mult >= 1
                  /\ result.mult * FluxBreakpoints[5] <= f
                  /\ f < (result.mult + 1) * FluxBreakpoints[5]
            /\ f = 10000 => result = FlareClass("B", 0)
            /\ f = 9999 => result = FlareClass("A", 0)
C11_Witness ==
    /\ Done("_classify_xray_flux")
    /\ arg[1] = Num(10000)
    /\ result = FlareClass("B", 0)

VariationBreakpoints == <<100, 200, 300, 500>>
DisturbanceLabels == <<"Quiet", "Unsettled", "Active", "Minor Storm", "Major Storm">>
DisturbanceRank(label) == CHOOSE k \in 1..5 : DisturbanceLabels[k] = label
(* C12: _classify_disturbance maps every numeric variation to exactly one
   label: below 10 'Quiet', below 20 'Unsettled', below 30 'Active', below 50
   'Minor Storm', otherwise 'Major Storm'; 49.9 is 'Minor Storm', 50.0 is
   'Major Storm', and the label never decreases when the variation grows *)
C12_DisturbanceTable ==
    (Done("_classify_disturbance") /\ arg[1].t = "num") =>
        LET v == arg[1].v
        IN  /\ result \in {DisturbanceLabels[k] : k \in 1..5}
            /\ DisturbanceRank(result) =
                  1 + Cardinality({k \in 1..4 : VariationBreakpoints[k] <= v})
            /\ v = 499 => result = "Minor Storm"
            /\ v = 500 => result = "Major Storm"
            /\ \A w \in VariationGrid :
                  (w.t = "num" /\ w.v <= v) =>
                      DisturbanceRank(classify_disturbance(VariationOf(w)))
                          <= DisturbanceRank(result)
C12_Witness ==
    /\ Done("_classify_disturbance")
    /\ arg[1] = Num(500)
    /\ result = "Major Storm"

CountOf(letter) == IF letter \in DOMAIN arg[1] THEN arg[1][letter] ELSE 0
(* C13: _classify_activity_level decides by strict precedence on the 24h
   counts: X>=1 'Very High'; else M>=3 'High'; else M>=1 'Moderate'; else
   C>=5 'Low-Moderate'; else C>=1 'Low'; else B>=1 'Very Low'; else 'Quiet';
   a higher class dominates any count of lower classes, so
   {X:0, M:1, C:10, B:0} is 'Moderate' *)
C13_ActivityPrecedence ==
    Done("_classify_activity_level") =>
        LET x == CountOf("X")
            m == CountOf("M")
            c == CountOf("C")
            b == CountOf("B")
        IN  /\ ~raised
            /\ result = "Very High" <=> x >= 1
            /\ result = "High" <=> (x = 0 /\ m >= 3)
            /\ result = "Moderate" <=> (x = 0 /\ m \in {1, 2})
            /\ result = "Low-Moderate" <=> (x = 0 /\ m = 0 /\ c >= 5)
            /\ result = "Low" <=> (x = 0 /\ m = 0 /\ c \in 1..4)
            /\ result = "Very Low" <=> (x = 0 /\ m = 0 /\ c = 0 /\ b >= 1)
            /\ result = "Quiet" <=> (x = 0 /\ m = 0 /\ c = 0 /\ b = 0)
C13_Witness ==
    /\ Done("_classify_activity_level")
    /\ arg[1] = [X |-> 0, M |-> 1, C |-> 10, B |-> 0]
    /\ result = "Moderate"

(* the long-channel samples of an X-ray response, and whether the current
   one is missing *)
LongChannel(r) ==
    LET IsLong(e) == e.energy = "0.1-0.8nm" IN SelectSeq(r.rows, IsLong)
CurrentFluxMissing(r) ==
    /\ r.status = "ok"
    /\ LongChannel(r) # <<>>
    /\ LongChannel(r)[Len(LongChannel(r))].flux.t = "nan"
(* C14: no threshold classifier is evaluated on a missing value: when the
   24h total-field variation is undefined (a single sample, or no numeric
   sample) the reported disturbance_level is not one of the labels of the
   breakpoint table, and when the current long-channel flux is non-numeric
   no flare class of the table is reported for it *)
C14_NoClassifierOnMissing ==
    /\ (Done("fetch_goes_magnetometer_data") /\ Truthy(result)
            /\ result.variation_24h.t = "nan")
          => result.disturbance_level \notin {DisturbanceLabels[k] : k \in 1..5}
    /\ (Done("fetch_goes_xray_data") /\ CurrentFluxMissing(resp[1]))
          => (Truthy(result) => result.classification.letter \notin
                                    {FlareLetters[k] : k \in 1..5})

GoesFeeds == [xray |-> resp[1], proton |-> resp[2], magnetometer |-> resp[3]]
(* the entry of fetch_latest_data('goes') under `name` when the response of
   feed `other` is replaced by r *)
EntryWith(name, other, r) ==
    fetch_latest_data(arg[1], now, [GoesFeeds EXCEPT ![other] = r]).ret[name]
(* C15: fetch_latest_data('goes') always returns exactly the three entries
   xray, proton and magnetometer, each the result of its own extractor on its
   own feed's response: replacing the response of any one feed by a failure
   (or by any other response) leaves the other two entries unchanged, and
   each feed is requested exactly once *)
C15_GoesEntriesIndependent ==
    (Done("fetch_latest_data") /\ SpelledAs(arg[1], <<"g", "o", "e", "s">>)) =>
        /\ ~raised
        /\ DOMAIN result = {"xray", "proton", "magnetometer"}
        /\ result.xray = fetch_goes_xray_data(resp[1]).ret
        /\ result.proton = fetch_goes_proton_data(now, resp[2]).ret
        /\ result.magnetometer = fetch_goes_magnetometer_data(resp[3]).ret
        /\ Len(requests) = 3
        /\ \A other \in DOMAIN result : \A name \in DOMAIN result \ {other} :
              \A r \in Failures \cup {Payload(FALSE, <<>>)} :
                  EntryWith(name, other, r) = result[name]
C15_Witness ==
    /\ Done("fetch_latest_data")
    /\ SpelledAs(arg[1], <<"g", "o", "e", "s">>)
    /\ resp[1].status # "ok"
    /\ result.xray = Empty
    /\ resp[2].status = "ok"
    /\ Truthy(result.proton)
    /\ DOMAIN result.proton.channels # {}
    /\ Truthy(result.magnetometer)

(* C17: when the current solar-wind speed is absent (solar-wind feed
   unavailable or last speed sample non-numeric) and the current Bz is a
   negative number, calculate_dst_estimate uses V = 400 and returns
   -20*|Bz|, the negative number whose square is 400*Bz*Bz *)
C17_AbsentSpeedDefaultsTo400 ==
    (Done("calculate_dst_estimate") /\ SpeedOf(resp[1]) = None
        /\ Lt(BzOf(resp[2]), 0))
        => result = DstNum(-1, DefaultSpeed * BzOf(resp[2]).v * BzOf(resp[2]).v)

ActiveRows(r) ==
    LET IsActive(region) == region.status = "active" IN SelectSeq(r.rows, IsActive)
LargeCount(r) ==
    Cardinality({i \in 1..Len(ActiveRows(r)) :
                    Gt(ActiveRows(r)[i].area, LargeArea)})
(* C18: in the sunspot analysis, with `complex` the reported complex_regions
   count and `large` the number of active regions with area > 500,
   flare_potential is 'Very Low' when there is no active region, else 'High'
   iff complex >= 2 or large >= 3, else 'Moderate' iff complex >= 1 or
   large >= 2, else 'Low-Moderate' iff there are at least 5 active regions,
   else 'Low' *)
C18_FlarePotentialFromComplexCount ==
    (Done("_fetch_sunspot_data") /\ Truthy(result)) =>
        LET complex == result.complex_regions
            large == LargeCount(resp[1])
            total == result.total_regions
        IN  result.flare_potential =
                IF total = 0 THEN "Very Low"
                ELSE IF complex >= 2 \/ large >= 3 THEN "High"
                ELSE IF complex >= 1 \/ large >= 2 THEN "Moderate"
                ELSE IF total >= 5 THEN "Low-Moderate"
                ELSE "Low"

(* C19: _generate_assessment sets solar_cycle_phase from every reported
   sunspot number ssn >= 0: 'Minimum' if ssn < 30, 'Rising/Declining' if
   ssn < 80, otherwise 'Maximum'; the phase is 'Unknown' only when no
   sunspot number is available *)
C19_PhaseFromEverySunspotNumber ==
    Done("_generate_assessment") =>
        LET ssn == Get(arg[1], "sunspot_number", None)
            phase == result.solar_cycle_phase
        IN  /\ (ssn.t = "num" /\ ssn.v >= 0) =>
                  phase = IF ssn.v < 30 THEN "Minimum"
                          ELSE IF ssn.v < 80 THEN "Rising/Declining"
                          ELSE "Maximum"
            /\ phase = "Unknown" => ssn = None

(* the instant by which a listed flare is ordered: its peak, its begin time
   when the peak is absent; a flare carrying neither is older than all *)
FlareHour(flare) ==
    IF ParseTime(SortKey(flare)).exc = "none"
    THEN ParseTime(SortKey(flare)).val ELSE -1000
(* the flares collected for the period by the call of this state, before
   the sort and the truncation *)
CollectedFlares ==
    IF arg[1] # <<>>
    THEN Appended([i \in 1..Len(arg[1]) |-> HekFlare(arg[1][i])])
    ELSE IF resp[1].status # "ok" THEN <<>>
    ELSE Appended([i \in 1..Len(resp[1].rows) |->
                      NoaaFlare(resp[1].rows[i], now, RegionsData(resp[2]))])
MoreRecentThan(list, h) == Cardinality({i \in 1..Len(list) : FlareHour(list[i]) > h})
(* C20: the recent_flares list returned by _fetch_recent_flares has at most
   10 entries, is ordered by peak time descending (begin time when the peak
   is absent), and holds the 10 most recent of the flares collected for the
   period: no omitted flare is more recent than an included one *)
C20_TenMostRecentFlares ==
    Done("_fetch_recent_flares") =>
        LET listed == result.recent_flares
            n == Len(listed)
        IN  /\ n = Min(Len(CollectedFlares), MaxListedFlares)
            /\ \A i \in 1..n : \A j \in (i + 1)..n :
                  FlareHour(listed[i]) >= FlareHour(listed[j])
            /\ \A i \in 1..n :
                  MoreRecentThan(CollectedFlares, FlareHour(listed[i]))
                      = MoreRecentThan(listed, FlareHour(listed[i]))

Pure(value) == [ret |-> value, raised |-> FALSE, log |-> <<>>]
LastResp == resp[Len(resp)]
(* what the operation of this state returns when it is the first request
   served by freshly constructed collectors, given the same arguments, the
   same feed responses and the same time *)
AsFirstRequest ==
    CASE op = "fetch_solar_wind_data" -> fetch_solar_wind_data(resp[1])
      [] op = "fetch_magnetometer_data" -> fetch_magnetometer_data(resp[1])
      [] op = "calculate_dst_estimate" -> calculate_dst_estimate(resp[1], resp[2])
      [] op = "generate_forecast" ->
            generate_forecast(RequestedDays, now, resp[1], resp[2], resp[3], resp[4])
      [] op = "check_alerts" -> check_alerts(now, resp[1], resp[2], resp[3], resp[4])
      [] op = "_estimate_kp" -> Pure(estimate_kp(arg[1]))
      [] op = "_get_condition_description" -> Pure(get_condition_description(arg[1]))
      [] op = "_classify_xray_flux" ->
            [ret |-> classify_xray_flux(arg[1]).val,
             raised |-> classify_xray_flux(arg[1]).exc # "none", log |-> <<>>]
      [] op = "fetch_goes_xray_data" -> fetch_goes_xray_data(resp[1])
      [] op = "fetch_goes_proton_data" -> fetch_goes_proton_data(now, resp[1])
      [] op = "_classify_disturbance" ->
            Pure(classify_disturbance(VariationOf(arg[1])))
      [] op = "fetch_goes_magnetometer_data" -> fetch_goes_magnetometer_data(resp[1])
      [] op = "fetch_ace_data" -> fetch_ace_data(resp[1], LastResp)
      [] op = "fetch_latest_data" ->
            fetch_latest_data(arg[1], now,
                IF SpelledAs(arg[1], <<"g", "o", "e", "s">>) THEN GoesFeeds
                ELSE IF SpelledAs(arg[1], <<"a", "c", "e">>)
                THEN [plasma |-> resp[1], mag |-> LastResp]
                ELSE Empty)
      [] op = "_classify_activity_level" -> Pure(classify_activity_level(arg[1]))
      [] op = "_fetch_solar_indices" -> fetch_solar_indices(resp[1])
      [] op = "_fetch_sunspot_data" -> fetch_sunspot_data(resp[1])
      [] op = "_generate_assessment" ->
            Pure(generate_assessment(arg[1], arg[2], arg[3]))
      [] op = "_fetch_recent_flares" ->
            IF arg[1] # <<>>
            THEN fetch_recent_flares(arg[1], now, Failed("transport"),
                                     Failed("transport"))
            ELSE fetch_recent_flares(<<>>, now, resp[1], LastResp)
(* C16: no operation of the three collectors changes state that a later
   call reads: the fields of the collectors stay as constructed, and every
   request, the first or a later one, returns what the same request would
   return as the first request with the same feed responses at the same
   time *)
C16_NothingCarriedOver ==
    /\ collector = Collectors
    /\ pc = "done" =>
          [ret |-> result, raised |-> raised, log |-> requests] = AsFirstRequest
C16_Witness ==
    /\ served
    /\ Done("generate_forecast")
    /\ "predictions" \in DOMAIN result
    /\ Len(result.predictions) >= 1
    /\ result.current_conditions.solar_wind_speed = Num(650)

(* the NOAA path of _fetch_recent_flares answered by the flares feed *)
NoaaPath ==
    Done("_fetch_recent_flares") /\ arg[1] = <<>> /\ resp[1].status = "ok"
(* the regions of the feed with a region number and a location, in the
   order of the feed *)
ListedRegions ==
    LET Listed(r) == r.region.t = "num" /\ r.region.v # 0 /\ r.location # ""
    IN  SelectSeq(RegionsData(resp[2]), Listed)
(* a region qualifies for a class letter by its event history or by the
   probability threshold of the class; a null field counts as 0 *)
QualifiesFor(letter, r) ==
    IF letter = "X" THEN Gt(r.x_xray_events, 0) \/ Gt(r.x_flare_probability, 9)
    ELSE IF letter = "M" THEN Gt(r.m_xray_events, 0) \/ Gt(r.m_flare_probability, 19)
    ELSE Gt(r.c_xray_events, 0) \/ Gt(r.c_flare_probability, 29)
NoneQualifies(letter) ==
    \A i \in 1..Len(ListedRegions) : ~QualifiesFor(letter, ListedRegions[i])
FallbackScore(r) ==
    Ind(r.mag_class \in {"BGD", "BG", "BD"}, 1000) + r.area.v
        + r.c_flare_probability.v + 10 * r.m_flare_probability.v
        + 100 * r.x_flare_probability.v
(* the first region of the feed among those with the greatest score *)
FallbackRegion ==
    ListedRegions[CHOOSE i \in 1..Len(ListedRegions) :
        /\ \A j \in 1..Len(ListedRegions) :
              FallbackScore(ListedRegions[j]) <= FallbackScore(ListedRegions[i])
        /\ \A j \in 1..(i - 1) :
              FallbackScore(ListedRegions[j]) < FallbackScore(ListedRegions[i])]
(* the flares of the feed that fall in the period of the call *)
InPeriod(flare) ==
    /\ flare.max_class # <<>>
    /\ TimeTruthy(flare.max_time)
    /\ ParseTime(flare.max_time).exc = "none"
    /\ ParseTime(flare.max_time).val > now * 24 - PeriodDays * 24
ListedAs(flare, region, location) ==
    \E k \in 1..Len(result.recent_flares) :
        /\ result.recent_flares[k].class = flare.max_class
        /\ result.recent_flares[k].peak = flare.max_time
        /\ result.recent_flares[k].begin = flare.begin_time
        /\ result.recent_flares[k].region = region
        /\ result.recent_flares[k].location = location
(* C21: in the NOAA flare path, a flare of the period for whose class no
   listed region qualifies by event history or by the probability threshold
   is attributed to the listed region with the greatest score
   complex*1000 + area + c_prob + 10*m_prob + 100*x_prob, the first of the
   feed among regions with equal score *)
C21_FallbackToMostComplexRegion ==
    (NoaaPath /\ Len(resp[1].rows) <= MaxListedFlares /\ ListedRegions # <<>>) =>
        \A i \in 1..Len(resp[1].rows) :
            LET flare == resp[1].rows[i]
            IN  (InPeriod(flare) /\ NoneQualifies(UpperChar(flare.max_class[1]))) =>
                    ListedAs(flare, RegionNum("AR", FallbackRegion.region),
                             FallbackRegion.location)
(* the same for feeds whose listed regions carry numbers in every field *)
C21_FallbackWithNumericFields ==
    (NoaaPath /\ \A i \in 1..Len(ListedRegions) :
        AllNumeric(<<ListedRegions[i]>>,
                   {"x_xray_events", "m_xray_events", "c_xray_events", "area",
                    "c_flare_probability", "m_flare_probability",
                    "x_flare_probability"}))
        => C21_FallbackToMostComplexRegion
C21_FallbackTie ==
    /\ NoaaPath
    /\ Len(ListedRegions) = 2
    /\ ListedRegions[1].region # ListedRegions[2].region
    /\ FallbackScore(ListedRegions[1]) = FallbackScore(ListedRegions[2])
    /\ \E i \in 1..Len(resp[1].rows) :
          /\ InPeriod(resp[1].rows[i])
          /\ NoneQualifies(UpperChar(resp[1].rows[i].max_class[1]))

(* the flux of the last entry of the feed that carries the label *)
LastFluxOf(energy) ==
    LET rows == resp[1].rows
        last == CHOOSE i \in 1..Len(rows) :
                    /\ rows[i].energy = energy
                    /\ \A j \in (i + 1)..Len(rows) : rows[j].energy # energy
    IN  rows[last].flux
(* C22: in a result of fetch_goes_proton_data, a channel's
   alert_threshold_exceeded is true iff its label is '>=10MeV' and its
   current (last) flux is strictly greater than 10; it is false for every
   other channel whatever its flux; sep_event_in_progress is true iff the
   flag of at least one channel is true *)
C22_ProtonAlertFlags ==
    (Done("fetch_goes_proton_data") /\ result # Empty) =>
        /\ DOMAIN result.channels =
              {resp[1].rows[i].energy : i \in 1..Len(resp[1].rows)}
        /\ \A energy \in DOMAIN result.channels :
              result.channels[energy].alert_threshold_exceeded
                  <=> (energy = ">=10MeV" /\ Gt(LastFluxOf(energy), 10))
        /\ result.sep_event_in_progress
              <=> \E energy \in DOMAIN result.channels :
                      result.channels[energy].alert_threshold_exceeded
(* two channels above 10, only the '>=10MeV' one flagged, after an earlier
   sample of that channel exactly at 10 *)
C22_Witness ==
    /\ Done("fetch_goes_proton_data")
    /\ result # Empty
    /\ Len(resp[1].rows) = 2
    /\ resp[1].rows[1] = [energy |-> ">=10MeV", flux |-> Num(50)]
    /\ resp[1].rows[2].energy = ">=100MeV"
    /\ result.sep_event_in_progress
    /\ ~result.channels[">=100MeV"].alert_threshold_exceeded
(* a '>=10MeV' channel whose last flux is exactly 10: no alert *)
C22_WitnessAtThreshold ==
    /\ Done("fetch_goes_proton_data")
    /\ result # Empty
    /\ resp[1].rows = <<[energy |-> ">=10MeV", flux |-> Num(50)],
                        [energy |-> ">=10MeV", flux |-> Num(10)]>>
    /\ ~result.sep_event_in_progress

(* the number of samples with Bz < 0 among the last 96 of the magnetometer
   feed r, a missing Bz counting as not southward *)
SouthwardSamples(r) ==
    LET n == Len(r.rows)
    IN  Cardinality({i \in 1..n : i > n - 96 /\ Lt(r.rows[i].bz_gsm, 0)})
(* the duration part of C23, on the results of fetch_magnetometer_data *)
C23_DurationCountsSamples ==
    (Done("fetch_magnetometer_data") /\ result # Empty) =>
        /\ result.southward_duration_minutes = 15 * SouthwardSamples(resp[1])
        /\ result.southward_duration_minutes % 15 = 0
        /\ result.southward_duration_minutes \in 0..1440
(* C23: southward_duration_minutes of fetch_magnetometer_data is 15 times
   the number of samples with Bz < 0 among the last 96 samples, hence a
   multiple of 15 between 0 and 1440, and check_alerts issues the
   sustained_southward warning exactly when at least 13 of those samples
   are southward *)
C23_SouthwardDurationAndAlert ==
    /\ C23_DurationCountsSamples
    /\ Done("check_alerts") =>
          (AlertPresent("warning", "sustained_southward")
              <=> (HasRows(resp[2]) /\ SouthwardSamples(resp[2]) >= 13))
(* the alert part where no feed that answered ends in a missing sample *)
C23_AlertWithCurrentValues ==
    (/\ Done("check_alerts")
     /\ HasRows(resp[1]) => SpeedOf(resp[1]) # None
     /\ HasRows(resp[2]) => BzOf(resp[2]) # None) =>
        (AlertPresent("warning", "sustained_southward")
            <=> (HasRows(resp[2]) /\ SouthwardSamples(resp[2]) >= 13))
C23_SustainedAlertIssued ==
    /\ Done("check_alerts")
    /\ AlertPresent("warning", "sustained_southward")
    /\ SouthwardSamples(resp[2]) = 13

(* the Dst estimates that calculate_dst_estimate can give for a reported
   current speed V and current Bz B, None where the result reports no value *)
DstEstimatesFrom(V, B) ==
    IF V.t = "num" /\ B.t = "num"
    THEN {IF B.v >= 0 THEN DstNum(-1, 4) ELSE DstFormula(V.v, B.v)}
    ELSE IF V.t = "none" /\ B.t = "num" /\ B.v >= 0
    THEN {DstNum(0, 0), DstNum(-1, 4)}
    ELSE {DstNum(0, 0)}
(* C24: in every result of generate_forecast that carries no 'error',
   current_conditions.dst_index is the Dst estimate of the solar_wind_speed
   and bz_component reported beside it, and the storm probability is derived
   from that same triple, also when a feed answers the two fetches of the
   one call differently *)
C24_DstOfReportedConditions ==
    (Done("generate_forecast") /\ "error" \notin DOMAIN result) =>
        LET cc == result.current_conditions
        IN  /\ cc.dst_index
                  \in DstEstimatesFrom(cc.solar_wind_speed, cc.bz_component)
            /\ \A i \in 1..Len(result.predictions) :
                  result.predictions[i].storm_probability
                      = Min(10 + Ind(Gt(cc.solar_wind_speed, 600), 30)
                               + Ind(Lt(cc.bz_component, -10), 40)
                               + Ind(DstLt(cc.dst_index, -50), 20), 95)
(* the same when each feed gives both fetches of the call one response *)
C24_WhenFeedsAreSteady ==
    (Done("generate_forecast") /\ resp[3] = resp[1] /\ resp[4] = resp[2])
        => C24_DstOfReportedConditions
C24_FeedChangedWithinCall ==
    /\ Done("generate_forecast")
    /\ "error" \notin DOMAIN result
    /\ SpeedOf(resp[1]) = Num(650)
    /\ SpeedOf(resp[3]) = Num(400)
    /\ BzOf(resp[2]) = Num(-20)
    /\ BzOf(resp[4]) = Num(-20)
    /\ result.current_conditions.dst_index = DstNum(-1, 400 * 20 * 20)

(* the flares of class letter c in a flare list *)
ListedOfClass(list, c) ==
    Cardinality({k \in 1..Len(list) : UpperChar(list[k].class[1]) = c})
(* C25: in every result of _fetch_recent_flares, counts_24h and counts_3d
   have exactly the keys B, C, M, X with non-negative counts,
   counts_24h[c] <= counts_3d[c] for each class c, and every flare counted
   in either table is in the flare list before its truncation to 10, so no
   count exceeds the number of flares of its class in that list *)
C25_CountedFlaresAreListed ==
    Done("_fetch_recent_flares") =>
        /\ DOMAIN result.counts_24h = {"B", "C", "M", "X"}
        /\ DOMAIN result.counts_3d = {"B", "C", "M", "X"}
        /\ \A c \in {"B", "C", "M", "X"} :
              /\ result.counts_24h[c] \in Nat
              /\ result.counts_3d[c] \in Nat
              /\ result.counts_24h[c] <= result.counts_3d[c]
              /\ result.counts_3d[c] <= ListedOfClass(CollectedFlares, c)
(* the same for the SunPy path, and for the NOAA path when the listed
   regions carry numbers in every field *)
C25_WithNumericRegionFields ==
    (Done("_fetch_recent_flares") /\
        (NoaaPath =>
            \A i \in 1..Len(ListedRegions) :
                AllNumeric(<<ListedRegions[i]>>,
                           {"x_xray_events", "m_xray_events", "c_xray_events",
                            "area", "c_flare_probability", "m_flare_probability",
                            "x_flare_probability"})))
        => C25_CountedFlaresAreListed
C25_CountedButNotListed ==
    /\ NoaaPath
    /\ result.counts_24h["X"] = 1
    /\ result.recent_flares = <<>>

(* the rule a class letter is attributed by: X, M, and the C-class rule for
   every other letter *)
RuleOf(letter) == IF letter \in {"X", "M"} THEN letter ELSE "C"
(* the listed region a rule selects: among the regions with events of the
   class, else among those at the probability threshold, the first with the
   most events weighted 100, 10, 1; else the fallback region *)
RuleRegion(rule) ==
    LET n == Len(ListedRegions)
        Events(r) == IF rule = "X" THEN r.x_xray_events.v
                     ELSE IF rule = "M" THEN r.m_xray_events.v
                     ELSE r.c_xray_events.v
        Probable(r) == IF rule = "X" THEN r.x_flare_probability.v >= 10
                       ELSE IF rule = "M" THEN r.m_flare_probability.v >= 20
                       ELSE r.c_flare_probability.v >= 30
        with_events == {i \in 1..n : Events(ListedRegions[i]) > 0}
        candidates == IF with_events # {} THEN with_events
                      ELSE {i \in 1..n : Probable(ListedRegions[i])}
        Activity(i) == 100 * ListedRegions[i].x_xray_events.v
                          + 10 * ListedRegions[i].m_xray_events.v
                          + ListedRegions[i].c_xray_events.v
    IN  IF candidates = {} THEN FallbackRegion
        ELSE ListedRegions[CHOOSE i \in candidates :
                 /\ \A j \in candidates : Activity(j) <= Activity(i)
                 /\ \A j \in candidates : j < i => Activity(j) < Activity(i)]
ListedLetter(k) == UpperChar(result.recent_flares[k].class[1])
(* C26: in the NOAA flare path the region of a listed flare depends only on
   its class letter and the regions feed: two listed flares of one class
   letter carry the same region and location, a flare whose class is neither
   X nor M (B included) carries the region of the C-class rule, and when a
   region with a number and a location is listed every listed flare carries
   a non-empty region *)
C26_RegionDependsOnClassOnly ==
    (NoaaPath /\ result.recent_flares # <<>>) =>
        LET listed == result.recent_flares
            Attributed(k, source) ==
                /\ listed[k].region = source.region
                /\ listed[k].location = source.location
            SameLetterSameRegion ==
                \A k, l \in 1..Len(listed) :
                    ListedLetter(k) = ListedLetter(l) =>
                        /\ listed[k].region = listed[l].region
                        /\ listed[k].location = listed[l].location
            ByRule(regions) ==
                IF regions = <<>>
                THEN \A k \in 1..Len(listed) :
                        Attributed(k, [region |-> NoRegion, location |-> ""])
                ELSE LET Carried(expected) ==
                             \A k \in 1..Len(listed) :
                                 /\ Attributed(k, expected[RuleOf(ListedLetter(k))])
                                 /\ listed[k].region # NoRegion
                                 /\ listed[k].location # ""
                     IN  With([rule \in {RuleOf(ListedLetter(k)) :
                                             k \in 1..Len(listed)} |->
                                  [region |-> RegionNum("AR", RuleRegion(rule).region),
                                   location |-> RuleRegion(rule).location]],
                              Carried)
        IN  SameLetterSameRegion /\ With(ListedRegions, ByRule)
(* a B flare and a C flare of different days, listed with the region of the
   C-class rule while the X-class rule selects another region *)
C26_Witness ==
    /\ NoaaPath
    /\ Len(result.recent_flares) = 2
    /\ ListedLetter(1) = "C"
    /\ ListedLetter(2) = "B"
    /\ result.recent_flares[1].peak # result.recent_flares[2].peak
    /\ result.recent_flares[2].region = RegionNum("AR", Num(3001))
    /\ RuleRegion("X").region = Num(3002)
====
